---- MODULE Spec2Model ----
(***************************************************************************)
(* Orbit resilient learning hub: the identity / authorization gateway, the *)
(* progress reconciliation (sync) handler and the enrollment transaction,  *)
(* as state machines over the User / Lesson / Progress tables.             *)
(***************************************************************************)
EXTENDS Integers, Sequences, FiniteSets, TLC

(***************************************************************************)
(* Bounds of the model.                                                    *)
(***************************************************************************)
\* rows the Progress table may hold before the model stops inserting
MaxRows == 6
\* last instant of the server clock
MaxTime == 2
\* the longest Authorization header tried, in atoms (words, spaces, tokens)
MaxHeaderLen == 3

(***************************************************************************)
(* Program constants.                                                      *)
(***************************************************************************)
\* JWT_EXPIRES_IN, in clock ticks of the model ("1h")
TTL == 1

Roles == {"STUDENT", "TEACHER", "ADMIN"}

\* the server's signing key and a key an attacker may use
SECRET == "JWT_SECRET"
OtherKey == "attacker-key"

\* ids that match /^c[a-z0-9]{24}$/ and one string that does not
UserIdPool == <<"cuser1", "cuser2", "cuser3">>
LessonIds == {"clesson1", "clesson2"}
GhostLessonId == "clesson9"
BadId == "not-a-cuid"
cuidRegex(s) == s \in {UserIdPool[i] : i \in 1..Len(UserIdPool)} \cup LessonIds \cup {GhostLessonId}

VARIABLES
  users,      \* table "User": set of rows
  lessons,    \* table "Lesson": set of lesson ids
  progress,   \* table "Progress": set of rows
  nextUser,   \* how many user ids were handed out
  now,        \* server clock
  pc,         \* per request task: where it stands
  inp,        \* per request task: the request (header, body)
  loc,        \* per request task: handler locals
  resp,       \* per request task: the response
  committed,  \* history: per Progress key, the values of the write committed last
  enrolled    \* history: the emails an enrollment was committed for

vars == <<users, lessons, progress, nextUser, now, pc, inp, loc, resp, committed,
          enrolled>>


(***************************************************************************)
(* Optional values (null / undefined in the code) are sequences of length  *)
(* at most one.                                                            *)
(***************************************************************************)
None == <<>>
Some(x) == <<x>>

(***************************************************************************)
(* Token service (lib/auth/jwt).  A token is the JOSE header's algorithm,  *)
(* the payload and the signature; the signature is the tuple of the key    *)
(* and everything it was computed over.                                    *)
(***************************************************************************)
Mac(key, alg, userId, role, iat, exp) == <<key, alg, userId, role, iat, exp>>

\* a variant of generateToken whose payload has no role
generateTokenNoRole(userId, role, t) ==
  [alg |-> "HS256", userId |-> userId, role |-> "", iat |-> t, exp |-> t + TTL,
   sig |-> Mac(SECRET, "HS256", userId, "", t, t + TTL)]

\* jwt.sign(payload, secret, {expiresIn}) at clock t
generateToken(userId, role, t) ==
  [alg |-> "HS256", userId |-> userId, role |-> role, iat |-> t, exp |-> t + TTL,
   sig |-> Mac(SECRET, "HS256", userId, role, t, t + TTL)]

\* a string that is no JWT at all ("invalid_token_123")
Garbage ==
  [alg |-> "garbage", userId |-> "", role |-> "", iat |-> 0, exp |-> 0, sig |-> <<>>]

\* a variant of jwt.verify that does not look at exp
VerifyOutcomeIgnoreExpiration(tok, t) ==
  IF tok.alg = "garbage" THEN "Malformed"
  ELSE IF tok.alg # "HS256" THEN "InvalidAlgorithm"
  ELSE IF tok.sig # Mac(SECRET, tok.alg, tok.userId, tok.role, tok.iat, tok.exp)
    THEN "InvalidSignature"
  ELSE "ok"

\* a variant of jwt.verify that takes the algorithm from the token's header, so
\* that a token with alg none needs no signature
VerifyOutcomeHeaderAlgorithm(tok, t) ==
  IF tok.alg = "garbage" THEN "Malformed"
  ELSE IF tok.alg # "none"
          /\ tok.sig # Mac(SECRET, tok.alg, tok.userId, tok.role, tok.iat, tok.exp)
    THEN "InvalidSignature"
  ELSE IF t >= tok.exp THEN "Expired"
  ELSE "ok"

\* what jwt.verify(token, secret, {algorithms: ["HS256"]}) does with a token at clock t
VerifyOutcome(tok, t) ==
  IF tok.alg = "garbage" THEN "Malformed"
  ELSE IF tok.alg # "HS256" THEN "InvalidAlgorithm"
  ELSE IF tok.sig # Mac(SECRET, tok.alg, tok.userId, tok.role, tok.iat, tok.exp)
    THEN "InvalidSignature"
  ELSE IF t >= tok.exp THEN "Expired"
  ELSE "ok"

\* verifyToken: the payload, or null on any error or when userId / role is missing
verifyToken(tok, t) ==
  IF VerifyOutcome(tok, t) # "ok" THEN None
  ELSE IF tok.userId = "" \/ tok.role = "" THEN None
  ELSE Some([userId |-> tok.userId, role |-> tok.role])

(***************************************************************************)
(* The Authorization header is a string, modelled as a sequence of atoms:  *)
(* a space, a word, or a token.                                            *)
(***************************************************************************)
Sp == [w |-> " ", t |-> None]
Word(w) == [w |-> w, t |-> None]
Tok(tok) == [w |-> "<token>", t |-> Some(tok)]
Bearer(tok) == <<Word("Bearer"), Sp, Tok(tok)>>

toLowerCase(w) == IF w \in {"Bearer", "BEARER", "bearer"} THEN "bearer" ELSE w

\* String.prototype.split(" "): the pieces between the spaces
RECURSIVE split(_)
split(h) ==
  IF h = <<>> THEN << <<>> >>
  ELSE LET rest == split(Tail(h)) IN
       IF Head(h) = Sp THEN << <<>> >> \o rest
       ELSE << <<Head(h)>> \o Head(rest) >> \o Tail(rest)

\* the token a piece of the header denotes: a single token atom, anything else is no JWT
AsToken(part) == IF Len(part) = 1 /\ part[1].t # None THEN part[1].t[1] ELSE Garbage

\* a variant of extractTokenFromHeader that takes the second part of any scheme
extractTokenFromHeaderAnyScheme(authHeader) ==
  IF authHeader = None \/ authHeader[1] = <<>> THEN None
  ELSE LET parts == split(authHeader[1]) IN
       IF Len(parts) # 2 THEN None ELSE Some(parts[2])

\* extractTokenFromHeader: authHeader is null (None) or a string (Some(atoms))
extractTokenFromHeader(authHeader) ==
  IF authHeader = None \/ authHeader[1] = <<>> THEN None
  ELSE LET parts == split(authHeader[1]) IN
       IF Len(parts) # 2
          \/ Len(parts[1]) # 1
          \/ toLowerCase(parts[1][1].w) # "bearer"
       THEN None
       ELSE Some(parts[2])

\* !token: null or the empty string
NoToken(token) == token = None \/ token[1] = <<>>


(***************************************************************************)
(* Response builders (lib/api-response).                                   *)
(***************************************************************************)
apiSuccess(data) == [status |-> 200, code |-> "", data |-> Some(data), message |-> <<>>]
apiCreated(data) == [status |-> 201, code |-> "", data |-> Some(data), message |-> <<>>]
apiValidationError ==
  [status |-> 400, code |-> "VALIDATION_ERROR", data |-> None, message |-> <<>>]
apiBadRequest == [status |-> 400, code |-> "BAD_REQUEST", data |-> None, message |-> <<>>]
apiConflict == [status |-> 409, code |-> "CONFLICT", data |-> None, message |-> <<>>]
apiError(status, code) ==
  [status |-> status, code |-> code, data |-> None, message |-> <<>>]
apiServerError ==
  [status |-> 500, code |-> "INTERNAL_SERVER_ERROR", data |-> None, message |-> <<>>]
apiUnauthorized(message, code) ==
  [status |-> 401, code |-> code, data |-> None, message |-> message]
apiForbidden(message, code) ==
  [status |-> 403, code |-> code, data |-> None, message |-> message]

\* a variant of handlePrismaError that does not know the unique violation
handlePrismaErrorIgnoresUnique(code) ==
  CASE code = "P2025" -> Some(apiError(404, "PRISMA_RECORD_NOT_FOUND"))
    [] code = "P2003" -> Some(apiBadRequest)
    [] OTHER -> None

\* handlePrismaError: the response for a Prisma error code, or null
handlePrismaError(code) ==
  CASE code = "P2025" -> Some(apiError(404, "PRISMA_RECORD_NOT_FOUND"))
    [] code = "P2002" -> Some(apiConflict)
    [] code = "P2003" -> Some(apiBadRequest)
    [] OTHER -> None

\* the catch block of the route handlers: handlePrismaError, else apiServerError
CatchResponse(code) ==
  IF handlePrismaError(code) # None THEN handlePrismaError(code)[1] ELSE apiServerError

(***************************************************************************)
(* Storage: the tables and the constraints the migrations declare.         *)
(***************************************************************************)
UserIds(tbl) == {u.id : u \in tbl}

\* rows of Progress with the composite key (userId, lessonId)
ProgressByKey(tbl, userId, lessonId) ==
  {r \in tbl : r.userId = userId /\ r.lessonId = lessonId}

\* INSERT INTO "Progress": the error the constraints raise, or "ok"
InsertProgressError(tbl, userTbl, lessonTbl, userId, lessonId) ==
  IF ProgressByKey(tbl, userId, lessonId) # {} THEN "P2002"
  ELSE IF userId \notin UserIds(userTbl) \/ lessonId \notin lessonTbl THEN "P2003"
  ELSE "ok"

\* the id of a new Progress row (cuid()): unique, here the key and a serial number
NewId(tbl, userId, lessonId) ==
  <<userId, lessonId, Cardinality(ProgressByKey(tbl, userId, lessonId)) + 1>>

\* a row of "Progress"; updatedAt (@updatedAt) is filled in by the client at clock t
NewProgress(id, userId, lessonId, completed, score, t) ==
  [id |-> id, userId |-> userId, lessonId |-> lessonId,
   completed |-> completed, score |-> score, updatedAt |-> t]

(***************************************************************************)
(* Request tasks.                                                          *)
(***************************************************************************)
Procs == {"t1", "t2"}

NoReq == [op |-> "none"]
NoLoc == [at |-> "none", solo |-> TRUE]
NoResp == [status |-> 0, code |-> "", data |-> None, message |-> <<>>]

\* a variant of createProgressSchema without the bounds and the integer test of score
createProgressSchemaAnyScore(body) ==
  /\ cuidRegex(body.userId)
  /\ cuidRegex(body.lessonId)
  /\ body.completed # None

\* createProgressSchema.safeParse(body).success
createProgressSchema(body) ==
  /\ cuidRegex(body.userId)
  /\ cuidRegex(body.lessonId)
  /\ body.completed # None
  /\ \/ body.score.kind \in {"undefined", "null"}
     \/ body.score.kind = "integer" /\ body.score.n >= 0 /\ body.score.n <= 100

\* const { score = null } = validationResult.data
ScoreOf(body) == IF body.score.kind = "integer" THEN Some(body.score.n) ELSE None

JsonUndefined == [kind |-> "undefined", n |-> 0]
JsonNull == [kind |-> "null", n |-> 0]
JsonInt(n) == [kind |-> "integer", n |-> n]
\* a number that is not an integer
JsonFraction == [kind |-> "fraction", n |-> 0]


(***************************************************************************)
(* Authorization gateway (lib/auth/middleware, lib/auth/rbac).             *)
(***************************************************************************)
\* the messages of the two authentication failures
MissingTokenMessage ==
  <<"Missing authentication token. Please include 'Authorization: Bearer <token>' header.">>
InvalidTokenMessage == <<"Invalid or expired token. Please log in again.">>

\* the elements of an array
Range(arr) == {arr[i] : i \in 1..Len(arr)}

\* Array.prototype.join(sep): the elements with sep between them, as text pieces
RECURSIVE join(_, _)
join(arr, sep) ==
  IF arr = <<>> THEN <<>>
  ELSE IF Len(arr) = 1 THEN <<arr[1]>>
  ELSE <<arr[1], sep>> \o join(Tail(arr), sep)

\* a variant of hasPermission that looks at the first allowed role only
hasPermissionFirstOnly(userRole, allowedRoles) ==
  allowedRoles # <<>> /\ allowedRoles[1] = userRole

\* hasPermission: allowedRoles.includes(userRole), allowedRoles an array
hasPermission(userRole, allowedRoles) == userRole \in Range(allowedRoles)

\* `Access denied. Required role: ${allowedRoles.join(" or ")}. Your role: ${role}`
AccessDenied(allowedRoles, role) ==
  <<"Access denied. Required role: ">> \o join(allowedRoles, " or ")
    \o <<". Your role: ", role>>

\* a variant of canModifyResource that also lets a TEACHER modify
canModifyResourceTeacherToo(authenticatedUserId, resourceOwnerId, userRole) ==
  IF authenticatedUserId = resourceOwnerId THEN TRUE
  ELSE IF userRole \in {"TEACHER", "ADMIN"} THEN TRUE
  ELSE FALSE

canModifyResource(authenticatedUserId, resourceOwnerId, userRole) ==
  IF authenticatedUserId = resourceOwnerId THEN TRUE
  ELSE IF userRole = "ADMIN" THEN TRUE
  ELSE FALSE

\* ROLE_PERMISSIONS: the roles that hold each permission
ROLE_PERMISSIONS ==
  [manageContent |-> <<"TEACHER", "ADMIN">>,
   deleteAny |-> <<"ADMIN">>,
   viewAllProgress |-> <<"TEACHER", "ADMIN">>,
   manageOwnProgress |-> <<"STUDENT", "TEACHER", "ADMIN">>,
   updateOwnProfile |-> <<"STUDENT", "TEACHER", "ADMIN">>,
   manageUsers |-> <<"ADMIN">>]

\* ROLE_HIERARCHY: higher index, more privileges
ROLE_HIERARCHY == [STUDENT |-> 0, TEACHER |-> 1, ADMIN |-> 2]

\* a variant of hasMinimumRole that asks for a strictly higher role
hasMinimumRoleStrict(userRole, minimumRole) ==
  ROLE_HIERARCHY[userRole] > ROLE_HIERARCHY[minimumRole]

hasMinimumRole(userRole, minimumRole) ==
  ROLE_HIERARCHY[userRole] >= ROLE_HIERARCHY[minimumRole]

\* a variant of canViewResource that lets only the owner and an ADMIN view
canViewResourceAdminOnly(authenticatedUserId, resourceOwnerId, userRole) ==
  IF authenticatedUserId = resourceOwnerId THEN TRUE
  ELSE IF hasPermission(userRole, ROLE_PERMISSIONS.manageUsers) THEN TRUE
  ELSE FALSE

canViewResource(authenticatedUserId, resourceOwnerId, userRole) ==
  IF authenticatedUserId = resourceOwnerId THEN TRUE
  ELSE IF hasPermission(userRole, ROLE_PERMISSIONS.viewAllProgress) THEN TRUE
  ELSE FALSE

\* withAuth up to the call of the handler: the 401 response, or the verified userId
withAuth(authHeader, t) ==
  LET token == extractTokenFromHeader(authHeader) IN
  IF NoToken(token)
  THEN [resp |-> Some(apiUnauthorized(MissingTokenMessage, "MISSING_TOKEN")), userId |-> ""]
  ELSE LET payload == verifyToken(AsToken(token[1]), t) IN
       IF payload = None
       THEN [resp |-> Some(apiUnauthorized(InvalidTokenMessage, "INVALID_TOKEN")), userId |-> ""]
       ELSE [resp |-> None, userId |-> payload[1].userId]

\* a variant of withRole that invokes the handler whatever the role
withRoleNoRoleCheck(allowedRoles, authHeader, t) ==
  LET token == extractTokenFromHeader(authHeader) IN
  IF NoToken(token)
  THEN [resp |-> Some(apiUnauthorized(MissingTokenMessage, "MISSING_TOKEN")), user |-> None]
  ELSE LET payload == verifyToken(AsToken(token[1]), t) IN
       IF payload = None
       THEN [resp |-> Some(apiUnauthorized(InvalidTokenMessage, "INVALID_TOKEN")), user |-> None]
       ELSE [resp |-> None,
             user |-> Some([id |-> payload[1].userId, role |-> payload[1].role])]

\* a variant of withRole that decides on the role stored for the token's subject
withRoleStoredRole(allowedRoles, authHeader, t) ==
  LET token == extractTokenFromHeader(authHeader) IN
  IF NoToken(token)
  THEN [resp |-> Some(apiUnauthorized(MissingTokenMessage, "MISSING_TOKEN")), user |-> None]
  ELSE LET payload == verifyToken(AsToken(token[1]), t) IN
       IF payload = None
       THEN [resp |-> Some(apiUnauthorized(InvalidTokenMessage, "INVALID_TOKEN")), user |-> None]
       ELSE LET stored == {u.role : u \in {x \in users : x.id = payload[1].userId}}
                role == IF stored = {} THEN payload[1].role ELSE CHOOSE r \in stored : TRUE
            IN IF ~hasPermission(role, allowedRoles)
               THEN [resp |-> Some(apiForbidden(AccessDenied(allowedRoles, role),
                                                "FORBIDDEN")),
                     user |-> None]
               ELSE [resp |-> None,
                     user |-> Some([id |-> payload[1].userId, role |-> role])]

\* withRole(allowedRoles, handler) up to the call of the handler: the 401 / 403
\* response, or the user {id, role} of the verified payload
withRole(allowedRoles, authHeader, t) ==
  LET token == extractTokenFromHeader(authHeader) IN
  IF NoToken(token)
  THEN [resp |-> Some(apiUnauthorized(MissingTokenMessage, "MISSING_TOKEN")), user |-> None]
  ELSE LET payload == verifyToken(AsToken(token[1]), t) IN
       IF payload = None
       THEN [resp |-> Some(apiUnauthorized(InvalidTokenMessage, "INVALID_TOKEN")), user |-> None]
       ELSE IF ~hasPermission(payload[1].role, allowedRoles)
       THEN [resp |-> Some(apiForbidden(AccessDenied(allowedRoles, payload[1].role),
                                        "FORBIDDEN")),
             user |-> None]
       ELSE [resp |-> None,
             user |-> Some([id |-> payload[1].userId, role |-> payload[1].role])]

\* the steps of the enrollment transaction
TxStates == {"enroll_user", "enroll_lessons", "enroll_progress"}

\* Progress rows inserted by task q's open transaction, not yet committed
PendingRows(q) == IF pc[q] \in TxStates THEN loc[q].rows ELSE {}

\* an INSERT waits while an open transaction holds an uncommitted row with its key
KeyLocked(p, userId, lessonId) ==
  \E q \in Procs \ {p} : ProgressByKey(PendingRows(q), userId, lessonId) # {}

\* a task between its first storage call and its response
InFlight(q) == pc[q] \notin {"idle", "done"}

\* task p enters its storage phase with locals l; "solo" records, for every task,
\* that no other task's storage phase overlapped its own
Enter(p, l) ==
  [q \in Procs |->
     IF q = p THEN [l EXCEPT !.solo = \A r \in Procs \ {p} : ~InFlight(r)]
     ELSE IF InFlight(q) THEN [loc[q] EXCEPT !.solo = FALSE]
     ELSE loc[q]]

\* history of the committed writes of sync: per key, the values submitted by the
\* request whose write was committed last
Commit(hist, l) ==
  {c \in hist : ~(c.userId = l.userId /\ c.lessonId = l.lessonId)}
    \cup {[userId |-> l.userId, lessonId |-> l.lessonId,
           completed |-> l.completed, score |-> l.score]}

(***************************************************************************)
(* POST /api/progress (sync).  The handler runs up to its first storage    *)
(* call in one step.  prisma.progress.upsert selects relations (include),  *)
(* so Prisma runs it as a read by the composite key followed by an UPDATE  *)
(* or an INSERT; the two statements are separate steps.                    *)
(***************************************************************************)
SyncHeaders ==
  {None, Some(Bearer(Garbage))}
    \cup {Some(Bearer(generateToken(u.id, u.role, now))) : u \in users}

\* request bodies: the well-formed ones on a seeded lesson, one that omits the
\* score, one that names a lesson that does not exist, and malformed ones
SyncBodies ==
  [userId : UserIds(users), lessonId : {"clesson1"},
   completed : {Some(TRUE), Some(FALSE)}, score : {JsonNull, JsonInt(90)}]
  \cup
  [userId : {"cuser1"}, lessonId : {"clesson1", GhostLessonId}, completed : {Some(TRUE)},
   score : {JsonUndefined}]
  \cup
  {[userId |-> "cuser1", lessonId |-> "clesson1", completed |-> Some(TRUE),
    score |-> JsonInt(150)],
   [userId |-> BadId, lessonId |-> "clesson1", completed |-> Some(TRUE),
    score |-> JsonNull],
   [userId |-> "cuser1", lessonId |-> "clesson1", completed |-> None,
    score |-> JsonNull]}

OwnProgressOnly == <<"You can only update your own progress">>

\* a variant of the handler's check that lets every authenticated caller through
SyncAuthorizedAnyone(userId, authenticatedUserId) == TRUE

\* the handler's authorization check: userId !== authenticatedUserId is refused
SyncAuthorized(userId, authenticatedUserId) == userId = authenticatedUserId

SyncReceiveFrom(p, headers, bodies) ==
  /\ pc[p] = "idle"
  /\ \E hdr \in headers, body \in bodies :
       LET auth == withAuth(hdr, now) IN
       /\ inp' = [inp EXCEPT ![p] = [op |-> "sync", hdr |-> hdr, body |-> body]]
       /\ IF auth.resp # None
          THEN /\ resp' = [resp EXCEPT ![p] = auth.resp[1]]
               /\ pc' = [pc EXCEPT ![p] = "done"]
               /\ loc' = loc
          ELSE IF ~createProgressSchema(body)
          THEN /\ resp' = [resp EXCEPT ![p] = apiValidationError]
               /\ pc' = [pc EXCEPT ![p] = "done"]
               /\ loc' = loc
          ELSE IF ~SyncAuthorized(body.userId, auth.userId)
          THEN /\ resp' = [resp EXCEPT ![p] = apiForbidden(OwnProgressOnly, "requestId")]
               /\ pc' = [pc EXCEPT ![p] = "done"]
               /\ loc' = loc
          ELSE /\ pc' = [pc EXCEPT ![p] = "sync_read"]
               /\ loc' = Enter(p, [at |-> "sync", solo |-> TRUE,
                                    userId |-> body.userId,
                                    lessonId |-> body.lessonId,
                                    completed |-> body.completed[1],
                                    score |-> ScoreOf(body),
                                    updatedAt |-> now, found |-> {}])
               /\ resp' = resp
  /\ UNCHANGED <<users, lessons, progress, nextUser, now, enrolled, committed>>

SyncReceive(p) == SyncReceiveFrom(p, SyncHeaders, SyncBodies)

\* a variant of the upsert's lookup that never finds the row (a plain create)
UpsertWhereNothing(tbl, userId, lessonId) == {}

\* where: {userId_lessonId: {userId, lessonId}}: the ids of the rows the upsert finds
UpsertWhere(tbl, userId, lessonId) ==
  {r.id : r \in ProgressByKey(tbl, userId, lessonId)}

\* a variant of the update that writes the score only when one is submitted
UpsertUpdateKeepsScore(r, l) ==
  [r EXCEPT !.completed = l.completed,
            !.score = IF l.score = None THEN @ ELSE l.score]

\* a variant of the update whose updatedAt is the storage clock at the write
UpsertUpdateStampsWrite(r, l) ==
  [r EXCEPT !.completed = l.completed, !.score = l.score, !.updatedAt = now]

\* update: {completed, score, updatedAt: new Date()}; the arguments, new Date()
\* among them, are evaluated when the handler makes the call (l.updatedAt)
UpsertUpdate(r, l) ==
  [r EXCEPT !.completed = l.completed, !.score = l.score, !.updatedAt = l.updatedAt]

\* the upsert's read: SELECT ... WHERE (userId, lessonId) = ...
SyncUpsertRead(p) ==
  /\ pc[p] = "sync_read"
  /\ loc' = [loc EXCEPT ![p].found =
               UpsertWhere(progress, loc[p].userId, loc[p].lessonId)]
  /\ pc' = [pc EXCEPT ![p] = "sync_write"]
  /\ UNCHANGED <<users, lessons, progress, nextUser, now, enrolled, inp, resp, committed>>

\* the upsert's write when the read found the row: UPDATE ... SET completed, score
SyncUpsertUpdate(p) ==
  /\ pc[p] = "sync_write"
  /\ loc[p].found # {}
  /\ LET rows == {r \in progress : r.id \in loc[p].found} IN
     IF rows = {}
     THEN /\ resp' = [resp EXCEPT ![p] = CatchResponse("P2025")]
          /\ UNCHANGED <<progress, committed>>
     ELSE LET new == {UpsertUpdate(r, loc[p]) : r \in rows} IN
          /\ progress' = (progress \ rows) \cup new
          /\ committed' = Commit(committed, loc[p])
          /\ resp' = [resp EXCEPT ![p] = apiCreated(CHOOSE r \in new : TRUE)]
  /\ pc' = [pc EXCEPT ![p] = "done"]
  /\ UNCHANGED <<users, lessons, nextUser, now, enrolled, inp, loc>>

\* the upsert's write when the read found nothing: INSERT
SyncUpsertCreate(p) ==
  /\ pc[p] = "sync_write"
  /\ loc[p].found = {}
  /\ Cardinality(progress) < MaxRows
  /\ ~KeyLocked(p, loc[p].userId, loc[p].lessonId)
  /\ LET err == InsertProgressError(progress, users, lessons,
                                    loc[p].userId, loc[p].lessonId)
         row == NewProgress(NewId(progress, loc[p].userId, loc[p].lessonId),
                            loc[p].userId, loc[p].lessonId,
                            loc[p].completed, loc[p].score, loc[p].updatedAt) IN
     IF err # "ok"
     THEN /\ resp' = [resp EXCEPT ![p] = CatchResponse(err)]
          /\ UNCHANGED <<progress, committed>>
     ELSE /\ progress' = progress \cup {row}
          /\ committed' = Commit(committed, loc[p])
          /\ resp' = [resp EXCEPT ![p] = apiCreated(row)]
  /\ pc' = [pc EXCEPT ![p] = "done"]
  /\ UNCHANGED <<users, lessons, nextUser, now, enrolled, inp, loc>>

\* the response was sent; the task is free for the next request
Finish(p) ==
  /\ pc[p] = "done"
  /\ pc' = [pc EXCEPT ![p] = "idle"]
  /\ inp' = [inp EXCEPT ![p] = NoReq]
  /\ loc' = [loc EXCEPT ![p] = NoLoc]
  /\ resp' = [resp EXCEPT ![p] = NoResp]
  /\ UNCHANGED <<users, lessons, progress, nextUser, now, enrolled, committed>>

(***************************************************************************)
(* POST /api/users/enroll.  One interactive transaction: its writes stay   *)
(* in the task (loc) until the commit and are dropped by a rollback.       *)
(***************************************************************************)
length(s) ==
  CASE s = "" -> 0
    [] s = "short" -> 5
    [] s = "Alice" -> 5
    [] s = "password1" -> 9
    [] s = "password2" -> 9
    [] OTHER -> 101

EmailFormatOk(e) ==
  e \in {"Student@Orbit.edu", "student@orbit.edu", "admin@orbit.edu", "new@orbit.edu"}

\* z.string().email().toLowerCase().trim()
emailToLowerCase(e) == IF e = "Student@Orbit.edu" THEN "student@orbit.edu" ELSE e

\* createUserSchema.safeParse(body).success
createUserSchema(body) ==
  /\ length(body.name) >= 1 /\ length(body.name) <= 100
  /\ EmailFormatOk(body.email)
  /\ length(body.password) >= 8

hashPassword(plain) == <<"bcrypt", plain>>

EnrollBodies ==
  [name : {"Alice"}, email : {"Student@Orbit.edu", "admin@orbit.edu", "new@orbit.edu"},
   password : {"password2"}]
  \cup
  {[name |-> "", email |-> "new@orbit.edu", password |-> "password1"],
   [name |-> "Alice", email |-> "not-an-email", password |-> "password1"],
   [name |-> "Alice", email |-> "new@orbit.edu", password |-> "short"]}

EnrollReceive(p) ==
  /\ pc[p] = "idle"
  /\ \E body \in EnrollBodies :
       /\ inp' = [inp EXCEPT ![p] = [op |-> "enroll", hdr |-> None, body |-> body]]
       /\ IF ~createUserSchema(body)
          THEN /\ resp' = [resp EXCEPT ![p] = apiValidationError]
               /\ pc' = [pc EXCEPT ![p] = "done"]
               /\ loc' = loc
          ELSE /\ pc' = [pc EXCEPT ![p] = "enroll_user"]
               /\ loc' = Enter(p, [at |-> "enroll", solo |-> TRUE, fault |-> FALSE,
                                    name |-> body.name,
                                    email |-> emailToLowerCase(body.email),
                                    password |-> hashPassword(body.password),
                                    user |-> None, allLessons |-> {},
                                    todo |-> {}, toInsert |-> {}, touched |-> {},
                                    rows |-> {}])
               /\ resp' = resp
  /\ UNCHANGED <<users, lessons, progress, nextUser, now, enrolled, committed>>

\* a variant of the user upsert whose update also writes the default role
UserUpsertRowResetRole(tbl, id, l) ==
  LET existing == {u \in tbl : u.email = l.email} IN
  IF existing # {}
  THEN [(CHOOSE u \in existing : TRUE) EXCEPT !.name = l.name, !.password = l.password,
                                             !.role = "STUDENT"]
  ELSE [id |-> id, email |-> l.email, name |-> l.name, password |-> l.password,
        role |-> "STUDENT"]

\* a variant of the user upsert whose update leaves the stored password alone
UserUpsertRowKeepsPassword(tbl, id, l) ==
  LET existing == {u \in tbl : u.email = l.email} IN
  IF existing # {}
  THEN [(CHOOSE u \in existing : TRUE) EXCEPT !.name = l.name]
  ELSE [id |-> id, email |-> l.email, name |-> l.name, password |-> l.password,
        role |-> "STUDENT"]

\* tx.user.upsert({where: {email}, update: {name, password}, create: {...}})
UserUpsertRow(tbl, id, l) ==
  LET existing == {u \in tbl : u.email = l.email} IN
  IF existing # {}
  THEN [(CHOOSE u \in existing : TRUE) EXCEPT !.name = l.name, !.password = l.password]
  ELSE [id |-> id, email |-> l.email, name |-> l.name, password |-> l.password,
        role |-> "STUDENT"]

\* a variant of the upsert that takes no lock on the row of the email
EmailNeverLocked(p, email) == FALSE

\* the user row an open transaction of another task holds for this email
EmailLocked(p, email) ==
  \E q \in Procs \ {p} :
    pc[q] \in TxStates /\ loc[q].user # None /\ loc[q].user[1].email = email

\* step 1: upsert the user by email
EnrollUpsertUser(p) ==
  /\ pc[p] = "enroll_user"
  /\ ~EmailLocked(p, loc[p].email)
  /\ LET isNew == \A u \in users : u.email # loc[p].email IN
     /\ isNew => nextUser < Len(UserIdPool)
     /\ loc' = [loc EXCEPT ![p].user =
                  Some(UserUpsertRow(users,
                         IF isNew THEN UserIdPool[nextUser + 1] ELSE "", loc[p]))]
     /\ nextUser' = IF isNew THEN nextUser + 1 ELSE nextUser
  /\ pc' = [pc EXCEPT ![p] = "enroll_lessons"]
  /\ UNCHANGED <<users, lessons, progress, now, enrolled, inp, resp, committed>>

\* step 2: tx.lesson.findMany({select: {id: true}})
EnrollFindLessons(p) ==
  /\ pc[p] = "enroll_lessons"
  /\ loc' = [loc EXCEPT ![p].allLessons = lessons, ![p].todo = lessons]
  /\ pc' = [pc EXCEPT ![p] = "enroll_progress"]
  /\ UNCHANGED <<users, lessons, progress, nextUser, now, enrolled, inp, resp, committed>>

\* a variant of the progress upsert whose update writes the create values
EnrollProgressUpdateReset(r) == [r EXCEPT !.completed = FALSE, !.score = None]

\* update: {} of tx.progress.upsert: what the update does to a row that exists
EnrollProgressUpdate(r) == r

\* step 3, per lesson: the upsert's read; an existing row takes the (empty) update
EnrollProgressRead(p) ==
  /\ pc[p] = "enroll_progress"
  /\ \E l \in loc[p].todo :
       LET rows == ProgressByKey(progress \cup loc[p].rows, loc[p].user[1].id, l) IN
       loc' = [loc EXCEPT ![p].todo = @ \ {l},
                          ![p].toInsert = IF rows = {} THEN @ \cup {l} ELSE @,
                          ![p].touched = @ \cup {r.id : r \in rows}]
  /\ UNCHANGED <<users, lessons, progress, nextUser, now, enrolled, pc, inp, resp,
                 committed>>

\* step 3, per lesson: the upsert's INSERT when the read found nothing
EnrollProgressInsert(p) ==
  /\ pc[p] = "enroll_progress"
  /\ Cardinality(progress \cup loc[p].rows) < MaxRows
  /\ \E l \in loc[p].toInsert :
       LET uid == loc[p].user[1].id
           err == InsertProgressError(progress \cup loc[p].rows,
                                      users \cup {loc[p].user[1]}, lessons, uid, l) IN
       /\ ~KeyLocked(p, uid, l)
       /\ IF err # "ok"
          THEN /\ resp' = [resp EXCEPT ![p] = CatchResponse(err)]
               /\ pc' = [pc EXCEPT ![p] = "done"]
               /\ loc' = loc
          ELSE /\ loc' = [loc EXCEPT ![p].toInsert = @ \ {l},
                                     ![p].rows = @ \cup
                                       {NewProgress(NewId(progress \cup loc[p].rows, uid, l),
                                                    uid, l, FALSE, None, now)}]
               /\ UNCHANGED <<pc, resp>>
  /\ UNCHANGED <<users, lessons, progress, nextUser, now, enrolled, inp, committed>>

\* the transaction callback returned: COMMIT, then apiCreated
EnrollCommit(p) ==
  /\ pc[p] = "enroll_progress"
  /\ loc[p].todo = {} /\ loc[p].toInsert = {}
  /\ LET u == loc[p].user[1] IN
     /\ users' = {x \in users : x.id # u.id /\ x.email # u.email} \cup {u}
     /\ progress' = {IF r.id \in loc[p].touched THEN EnrollProgressUpdate(r) ELSE r :
                       r \in progress} \cup loc[p].rows
     /\ resp' = [resp EXCEPT ![p] =
                   apiCreated([user |-> [id |-> u.id, name |-> u.name, email |-> u.email],
                               progressInitialized |-> Cardinality(loc[p].allLessons)])]
  /\ enrolled' = enrolled \cup {loc[p].email}
  /\ pc' = [pc EXCEPT ![p] = "done"]
  /\ UNCHANGED <<lessons, nextUser, now, inp, loc, committed>>

\* a variant of the failure path that leaves the transaction's writes in place
EnrollFaultNoRollback(p) ==
  /\ pc[p] \in TxStates
  /\ loc[p].user # None
  /\ users' = {x \in users : x.id # loc[p].user[1].id} \cup {loc[p].user[1]}
  /\ progress' = progress \cup loc[p].rows
  /\ loc' = [loc EXCEPT ![p].fault = TRUE]
  /\ resp' = [resp EXCEPT ![p] = apiServerError]
  /\ pc' = [pc EXCEPT ![p] = "done"]
  /\ UNCHANGED <<lessons, nextUser, now, enrolled, inp, committed>>

\* a storage call of the transaction throws without a Prisma code the handler maps:
\* the transaction rolls back and the catch block answers 500
EnrollFault(p) ==
  /\ pc[p] \in TxStates
  /\ loc' = [loc EXCEPT ![p].fault = TRUE]
  /\ resp' = [resp EXCEPT ![p] = apiServerError]
  /\ pc' = [pc EXCEPT ![p] = "done"]
  /\ UNCHANGED <<users, lessons, progress, nextUser, now, enrolled, inp, committed>>

(***************************************************************************)
(* The seeded database and the specification.                              *)
(***************************************************************************)
\* the user the seed script creates
SeedStudent ==
  [id |-> "cuser1", email |-> "student@orbit.edu", name |-> "Aryan Anand",
   password |-> <<"raw", "hashed_password_placeholder">>, role |-> "STUDENT"]

\* an administrator, created by a signup that an administrator's token authorized
AdminUser ==
  [id |-> "cuser2", email |-> "admin@orbit.edu", name |-> "Test Admin",
   password |-> hashPassword("password1"), role |-> "ADMIN"]

SeedUsers == {SeedStudent, AdminUser}

Init ==
  /\ users = SeedUsers
  /\ lessons = LessonIds
  /\ progress = {}
  /\ nextUser = Cardinality(SeedUsers)
  /\ now = 0
  /\ pc = [p \in Procs |-> "idle"]
  /\ inp = [p \in Procs |-> NoReq]
  /\ loc = [p \in Procs |-> NoLoc]
  /\ resp = [p \in Procs |-> NoResp]
  /\ committed = {}
  /\ enrolled = {}

Next ==
  \E p \in Procs :
    \/ SyncReceive(p)
    \/ SyncUpsertRead(p)
    \/ SyncUpsertUpdate(p)
    \/ SyncUpsertCreate(p)
    \/ Finish(p)

Spec == Init /\ [][Next]_vars

\* enrollment next to the sync requests of the enrolled subjects
Enroller == "t1"
Syncer == "t2"

\* the enrolled subjects' sync requests, each with its own token
EnrollSyncHeaders ==
  {Some(Bearer(generateToken(u.id, u.role, now))) : u \in users}

EnrollSyncBodies ==
  {b \in SyncBodies : b.lessonId = "clesson1" /\ b.score.kind # "undefined"
                        /\ createProgressSchema(b)
                        /\ (b.completed = Some(TRUE)) = (b.score.kind = "integer")}

NextEnroll ==
  \/ EnrollReceive(Enroller)
  \/ EnrollUpsertUser(Enroller)
  \/ EnrollFindLessons(Enroller)
  \/ EnrollProgressRead(Enroller)
  \/ EnrollProgressInsert(Enroller)
  \/ EnrollCommit(Enroller)
  \/ EnrollFault(Enroller)
  \/ SyncReceiveFrom(Syncer, EnrollSyncHeaders, EnrollSyncBodies)
  \/ SyncUpsertRead(Syncer)
  \/ SyncUpsertUpdate(Syncer)
  \/ SyncUpsertCreate(Syncer)
  \/ Finish(Enroller)
  \/ Finish(Syncer)

SpecEnroll == Init /\ [][NextEnroll]_vars

\* sync bodies that fail each rule of createProgressSchema, next to a well-formed one
MalformedSyncBodies ==
  [userId : {"cuser1", BadId}, lessonId : {"clesson1", BadId},
   completed : {Some(TRUE), None},
   score : {JsonNull, JsonInt(90), JsonInt(150), JsonInt(-1), JsonFraction}]

\* an enrollment next to a sync, with well-formed and malformed bodies
NextValidate ==
  \/ EnrollReceive(Enroller)
  \/ EnrollUpsertUser(Enroller)
  \/ EnrollFindLessons(Enroller)
  \/ EnrollProgressRead(Enroller)
  \/ EnrollProgressInsert(Enroller)
  \/ EnrollCommit(Enroller)
  \/ EnrollFault(Enroller)
  \/ SyncReceiveFrom(Syncer, SyncHeaders, MalformedSyncBodies)
  \/ SyncUpsertRead(Syncer)
  \/ SyncUpsertUpdate(Syncer)
  \/ SyncUpsertCreate(Syncer)
  \/ Finish(Enroller)
  \/ Finish(Syncer)

SpecValidate == Init /\ [][NextValidate]_vars

\* two enrollments at a time
NextEnrollPair ==
  \E p \in Procs :
    \/ EnrollReceive(p)
    \/ EnrollUpsertUser(p)
    \/ EnrollFindLessons(p)
    \/ EnrollProgressRead(p)
    \/ EnrollProgressInsert(p)
    \/ EnrollCommit(p)
    \/ EnrollFault(p)
    \/ Finish(p)

SpecEnrollPair == Init /\ [][NextEnrollPair]_vars


(***************************************************************************)
(* A route behind withAuth or withRole.  A request carries, next to its    *)
(* header, how the header was made: which kind it is and, for a token the  *)
(* server issued, to whom and when.                                        *)
(***************************************************************************)
Caller == "t1"

Req(kind, hdr, userId, role, iat) ==
  [kind |-> kind, hdr |-> hdr, userId |-> userId, role |-> role, iat |-> iat]

\* a token signed with another key, one with alg none, one whose role was edited
\* after signing, and one the server signed without a role claim
Forged(userId) ==
  [alg |-> "HS256", userId |-> userId, role |-> "ADMIN", iat |-> 0, exp |-> MaxTime + TTL + 1,
   sig |-> Mac(OtherKey, "HS256", userId, "ADMIN", 0, MaxTime + TTL + 1)]
Unsigned(userId) ==
  [alg |-> "none", userId |-> userId, role |-> "ADMIN", iat |-> 0, exp |-> MaxTime + TTL + 1,
   sig |-> <<>>]
Tampered(tok) == [tok EXCEPT !.role = "ADMIN"]
NoRoleClaim(userId, t) ==
  [alg |-> "HS256", userId |-> userId, role |-> "", iat |-> t, exp |-> t + TTL,
   sig |-> Mac(SECRET, "HS256", userId, "", t, t + TTL)]

GatewayRequests ==
  {Req("absent", None, "", "", 0), Req("absent", Some(<<>>), "", "", 0)}
  \cup UNION {
    LET tok == generateToken(u.id, u.role, t0) IN
    {Req("issued", Some(Bearer(tok)), u.id, u.role, t0),
     Req("issued", Some(<<Word("bearer"), Sp, Tok(tok)>>), u.id, u.role, t0),
     Req("malformed", Some(<<Word("Basic"), Sp, Tok(tok)>>), u.id, u.role, t0),
     Req("malformed", Some(<<Tok(tok)>>), u.id, u.role, t0),
     Req("malformed", Some(<<Word("Bearer"), Sp, Sp, Tok(tok)>>), u.id, u.role, t0),
     Req("malformed", Some(<<Word("Bearer"), Sp>>), u.id, u.role, t0),
     Req("invalid", Some(Bearer(Garbage)), u.id, u.role, t0),
     Req("invalid", Some(Bearer(Forged(u.id))), u.id, u.role, t0),
     Req("invalid", Some(Bearer(Unsigned(u.id))), u.id, u.role, t0),
     Req("invalid", Some(Bearer(NoRoleClaim(u.id, t0))), u.id, u.role, t0)}
    \cup (IF u.role # "ADMIN"
          THEN {Req("invalid", Some(Bearer(Tampered(tok))), u.id, u.role, t0)}
          ELSE {})
    : u \in users, t0 \in 0..now}

\* the allowedRoles arrays of the routes: the ones the route handlers pass, no
\* role, one role, and two roles in the other order
RouteRoles ==
  {<<>>, <<"TEACHER", "ADMIN">>, <<"STUDENT", "TEACHER", "ADMIN">>, <<"ADMIN">>,
   <<"STUDENT">>, <<"TEACHER">>, <<"ADMIN", "TEACHER">>, <<"STUDENT", "ADMIN">>}

\* the request arrives and the wrapper runs up to the call of the handler
GatewayReceive(p) ==
  /\ pc[p] = "idle"
  /\ \E req \in GatewayRequests, route \in {"withAuth", "withRole"},
        allowedRoles \in RouteRoles :
       /\ route = "withAuth" => allowedRoles = <<>>
       /\ inp' = [inp EXCEPT ![p] =
                    [op |-> "gateway", hdr |-> req.hdr, kind |-> req.kind,
                     userId |-> req.userId, role |-> req.role, iat |-> req.iat,
                     at |-> now, route |-> route,
                     allowedRoles |-> Range(allowedRoles), roleList |-> allowedRoles]]
       /\ LET out == IF route = "withAuth"
                     THEN LET a == withAuth(req.hdr, now) IN
                          [resp |-> a.resp,
                           arg |-> [userId |-> a.userId, role |-> ""]]
                     ELSE LET r == withRole(allowedRoles, req.hdr, now) IN
                          [resp |-> r.resp,
                           arg |-> IF r.user = None THEN [userId |-> "", role |-> ""]
                                   ELSE [userId |-> r.user[1].id,
                                         role |-> r.user[1].role]] IN
          IF out.resp # None
          THEN /\ resp' = [resp EXCEPT ![p] = out.resp[1]]
               /\ pc' = [pc EXCEPT ![p] = "done"]
               /\ loc' = [loc EXCEPT ![p] = [at |-> "gateway", solo |-> TRUE,
                                             ran |-> FALSE, arg |-> out.arg]]
          ELSE /\ pc' = [pc EXCEPT ![p] = "gw_handler"]
               /\ loc' = [loc EXCEPT ![p] = [at |-> "gateway", solo |-> TRUE,
                                             ran |-> FALSE, arg |-> out.arg]]
               /\ resp' = resp
  /\ UNCHANGED <<users, lessons, progress, nextUser, now, enrolled, committed>>

\* the wrapped handler's body runs with the argument the wrapper passed
GatewayHandler(p) ==
  /\ pc[p] = "gw_handler"
  /\ loc' = [loc EXCEPT ![p].ran = TRUE]
  /\ resp' = [resp EXCEPT ![p] = apiSuccess(loc[p].arg)]
  /\ pc' = [pc EXCEPT ![p] = "done"]
  /\ UNCHANGED <<users, lessons, progress, nextUser, now, enrolled, inp, committed>>

\* the server clock advances
Tick ==
  /\ now < MaxTime
  /\ now' = now + 1
  /\ UNCHANGED <<users, lessons, progress, nextUser, enrolled, pc, inp, loc, resp,
                 committed>>

NextGateway ==
  \/ GatewayReceive(Caller)
  \/ GatewayHandler(Caller)
  \/ Finish(Caller)
  \/ Tick

SpecGateway == Init /\ [][NextGateway]_vars

\* the seeded student's sync requests for one lesson while the clock advances
StampHeaders == {Some(Bearer(generateToken("cuser1", "STUDENT", now)))}

StampBodies ==
  [userId : {"cuser1"}, lessonId : {"clesson1"},
   completed : {Some(TRUE), Some(FALSE)}, score : {JsonNull}]

NextStamp ==
  \/ \E p \in Procs :
       \/ SyncReceiveFrom(p, StampHeaders, StampBodies)
       \/ SyncUpsertRead(p)
       \/ SyncUpsertUpdate(p)
       \/ SyncUpsertCreate(p)
       \/ Finish(p)
  \/ Tick

SpecStamp == Init /\ [][NextStamp]_vars


(***************************************************************************)
(* The token service on its own: a token is issued or made up, and is      *)
(* verified any number of times while the clock advances.                  *)
(***************************************************************************)
Holder == "t1"

\* a token signed at clock t with a key other than the server's
ForgedAt(userId, role, t) ==
  [alg |-> "HS256", userId |-> userId, role |-> role, iat |-> t, exp |-> t + TTL,
   sig |-> Mac(OtherKey, "HS256", userId, role, t, t + TTL)]

HeldToken(tok, issued, userId, role) ==
  [at |-> "token", solo |-> TRUE, tok |-> tok, issued |-> issued,
   userId |-> userId, role |-> role,
   checked |-> FALSE, checkedAt |-> 0, result |-> None, outcome |-> "",
   accepted |-> FALSE]

\* generateToken(userId, role) is called at the current clock
TokenIssue(p) ==
  /\ pc[p] = "idle"
  /\ \E i \in 1..Len(UserIdPool), role \in Roles :
       /\ loc' = [loc EXCEPT ![p] =
                    HeldToken(generateToken(UserIdPool[i], role, now), TRUE,
                              UserIdPool[i], role)]
       /\ inp' = [inp EXCEPT ![p] = [op |-> "token"]]
  /\ pc' = [pc EXCEPT ![p] = "tok_held"]
  /\ UNCHANGED <<users, lessons, progress, nextUser, now, enrolled, resp, committed>>

\* a token the server did not issue
TokenMakeUp(p) ==
  /\ pc[p] = "idle"
  /\ \E i \in 1..Len(UserIdPool), role \in Roles :
       \E tok \in {Garbage, ForgedAt(UserIdPool[i], role, now), Unsigned(UserIdPool[i]),
                   Tampered(generateToken(UserIdPool[i], "STUDENT", now)),
                   NoRoleClaim(UserIdPool[i], now)} :
         /\ loc' = [loc EXCEPT ![p] = HeldToken(tok, FALSE, UserIdPool[i], role)]
         /\ inp' = [inp EXCEPT ![p] = [op |-> "token"]]
  /\ pc' = [pc EXCEPT ![p] = "tok_held"]
  /\ UNCHANGED <<users, lessons, progress, nextUser, now, enrolled, resp, committed>>

\* verifyToken(token) is called at the current clock
TokenVerify(p) ==
  /\ pc[p] = "tok_held"
  /\ LET result == verifyToken(loc[p].tok, now) IN
     loc' = [loc EXCEPT ![p].checked = TRUE, ![p].checkedAt = now,
                        ![p].result = result,
                        ![p].outcome = VerifyOutcome(loc[p].tok, now),
                        ![p].accepted = @ \/ result # None]
  /\ UNCHANGED <<users, lessons, progress, nextUser, now, enrolled, pc, inp, resp,
                 committed>>

\* the token is thrown away
TokenDrop(p) ==
  /\ pc[p] = "tok_held"
  /\ pc' = [pc EXCEPT ![p] = "done"]
  /\ UNCHANGED <<users, lessons, progress, nextUser, now, enrolled, inp, loc, resp,
                 committed>>

\* the holder edits a field of the token it was issued and keeps the signature,
\* or drops it; the edited token has not been verified yet
TokenAlter(p) ==
  /\ pc[p] = "tok_held"
  /\ loc[p].issued
  /\ \E altered \in
         {[loc[p].tok EXCEPT !.userId = UserIdPool[i]] : i \in 1..Len(UserIdPool)}
           \cup {[loc[p].tok EXCEPT !.role = role] : role \in Roles}
           \cup {[loc[p].tok EXCEPT !.exp = e] : e \in 0..(MaxTime + TTL + 1)}
           \cup {[loc[p].tok EXCEPT !.alg = alg] : alg \in {"none", "HS512"}}
           \cup {[loc[p].tok EXCEPT !.alg = "none", !.sig = <<>>]} :
       /\ altered # loc[p].tok
       /\ loc' = [loc EXCEPT ![p].tok = altered, ![p].checked = FALSE,
                              ![p].checkedAt = 0, ![p].result = None,
                              ![p].outcome = ""]
  /\ UNCHANGED <<users, lessons, progress, nextUser, now, enrolled, pc, inp, resp,
                 committed>>

NextToken ==
  \/ TokenIssue(Holder)
  \/ TokenMakeUp(Holder)
  \/ TokenVerify(Holder)
  \/ TokenDrop(Holder)
  \/ Finish(Holder)
  \/ Tick

SpecToken == Init /\ [][NextToken]_vars

\* the token service with a holder who also edits tokens
NextTamper ==
  \/ TokenIssue(Holder)
  \/ TokenMakeUp(Holder)
  \/ TokenAlter(Holder)
  \/ TokenVerify(Holder)
  \/ TokenDrop(Holder)
  \/ Finish(Holder)
  \/ Tick

SpecTamper == Init /\ [][NextTamper]_vars


(***************************************************************************)
(* POST /api/auth/login.  The handler runs up to its storage read in one   *)
(* step and from the read to its response in the next.                     *)
(***************************************************************************)
\* loginSchema.safeParse(body).success: an email, a password of at least 1 character
loginSchema(body) == EmailFormatOk(body.email) /\ length(body.password) >= 1

\* bcrypt.compare(plainPassword, hashedPassword): false for a string that is no hash
verifyPassword(plainPassword, hashedPassword) ==
  hashedPassword = hashPassword(plainPassword)

InvalidCredentials == <<"Invalid email or password">>

\* a variant of the answer to an unknown email that says so
LoginUnknownEmailRevealing ==
  [status |-> 404, code |-> "NOT_FOUND", data |-> None,
   message |-> <<"No account with this email">>]

\* if (!user) return apiUnauthorized("Invalid email or password", "UNAUTHORIZED")
LoginUnknownEmail == apiUnauthorized(InvalidCredentials, "UNAUTHORIZED")

\* if (!isPasswordValid) return apiUnauthorized("Invalid email or password", ...)
LoginWrongPassword == apiUnauthorized(InvalidCredentials, "UNAUTHORIZED")

LoginBodies ==
  [email : {"Student@Orbit.edu", "admin@orbit.edu", "new@orbit.edu", "not-an-email"},
   password : {"password1", "password2", ""}]

LoginReceive(p) ==
  /\ pc[p] = "idle"
  /\ \E body \in LoginBodies :
       /\ inp' = [inp EXCEPT ![p] = [op |-> "login", hdr |-> None, body |-> body]]
       /\ IF ~loginSchema(body)
          THEN /\ resp' = [resp EXCEPT ![p] = apiValidationError]
               /\ pc' = [pc EXCEPT ![p] = "done"]
               /\ loc' = loc
          ELSE /\ pc' = [pc EXCEPT ![p] = "login_find"]
               /\ loc' = Enter(p, [at |-> "login", solo |-> TRUE,
                                    email |-> emailToLowerCase(body.email),
                                    password |-> body.password,
                                    known |-> FALSE])
               /\ resp' = resp
  /\ UNCHANGED <<users, lessons, progress, nextUser, now, enrolled, committed>>

\* prisma.user.findUnique({where: {email}}), verifyPassword, generateToken, apiSuccess
LoginFindAndVerify(p) ==
  /\ pc[p] = "login_find"
  /\ LET found == {u \in users : u.email = loc[p].email} IN
     /\ loc' = [loc EXCEPT ![p].known = found # {}]
     /\ IF found = {}
        THEN resp' = [resp EXCEPT ![p] = LoginUnknownEmail]
        ELSE LET user == CHOOSE u \in found : TRUE IN
             IF ~verifyPassword(loc[p].password, user.password)
             THEN resp' = [resp EXCEPT ![p] = LoginWrongPassword]
             ELSE resp' = [resp EXCEPT ![p] =
                      apiSuccess([token |-> generateToken(user.id, user.role, now),
                                  user |-> [id |-> user.id, name |-> user.name,
                                            email |-> user.email,
                                            role |-> user.role]])]
  /\ pc' = [pc EXCEPT ![p] = "done"]
  /\ UNCHANGED <<users, lessons, progress, nextUser, now, enrolled, inp, committed>>

NextLogin ==
  \/ \E p \in Procs :
       \/ LoginReceive(p)
       \/ LoginFindAndVerify(p)
       \/ Finish(p)
  \/ Tick

SpecLogin == Init /\ [][NextLogin]_vars

\* enrollments of one client next to the logins of another
NextEnrollLogin ==
  \/ EnrollReceive(Enroller)
  \/ EnrollUpsertUser(Enroller)
  \/ EnrollFindLessons(Enroller)
  \/ EnrollProgressRead(Enroller)
  \/ EnrollProgressInsert(Enroller)
  \/ EnrollCommit(Enroller)
  \/ EnrollFault(Enroller)
  \/ Finish(Enroller)
  \/ \E p \in Procs \ {Enroller} :
       \/ LoginReceive(p)
       \/ LoginFindAndVerify(p)
       \/ Finish(p)

SpecEnrollLogin == Init /\ [][NextEnrollLogin]_vars


(***************************************************************************)
(* A principal's stored role is changed (in the database, no route does    *)
(* it) while a client holds the token of an earlier login and uses it on   *)
(* role-protected routes.                                                  *)
(***************************************************************************)
LoginClient == "t1"
RoleCaller == "t2"

\* the role column of a user row is set to another role
RoleChange ==
  /\ \E u \in users :
       \E role \in Roles \ {u.role} :
         users' = (users \ {u}) \cup {[u EXCEPT !.role = role]}
  /\ UNCHANGED <<lessons, progress, nextUser, now, enrolled, pc, inp, loc, resp,
                 committed>>

\* the tokens the answered logins returned
LoginTokens ==
  {resp[q].data[1].token : q \in {r \in Procs : inp[r].op = "login" /\ resp[r].status = 200}}

\* a request with the token of a login reaches a withRole route
RoleGateReceive(p) ==
  /\ pc[p] = "idle"
  /\ \E tok \in LoginTokens, allowedRoles \in RouteRoles \ {<<>>} :
       LET r == withRole(allowedRoles, Some(Bearer(tok)), now) IN
       /\ inp' = [inp EXCEPT ![p] =
                    [op |-> "gateway", hdr |-> Some(Bearer(tok)), kind |-> "issued",
                     userId |-> tok.userId, role |-> tok.role, iat |-> tok.iat,
                     at |-> now, route |-> "withRole",
                     allowedRoles |-> Range(allowedRoles), roleList |-> allowedRoles]]
       /\ loc' = [loc EXCEPT ![p] =
                    [at |-> "gateway", solo |-> TRUE, ran |-> FALSE,
                     arg |-> IF r.user = None THEN [userId |-> "", role |-> ""]
                             ELSE [userId |-> r.user[1].id, role |-> r.user[1].role]]]
       /\ IF r.resp # None
          THEN /\ resp' = [resp EXCEPT ![p] = r.resp[1]]
               /\ pc' = [pc EXCEPT ![p] = "done"]
          ELSE /\ pc' = [pc EXCEPT ![p] = "gw_handler"]
               /\ resp' = resp
  /\ UNCHANGED <<users, lessons, progress, nextUser, now, enrolled, committed>>

NextRoleChange ==
  \/ LoginReceive(LoginClient)
  \/ LoginFindAndVerify(LoginClient)
  \/ Finish(LoginClient)
  \/ RoleChange
  \/ RoleGateReceive(RoleCaller)
  \/ GatewayHandler(RoleCaller)
  \/ Finish(RoleCaller)
  \/ Tick

SpecRoleChange == Init /\ [][NextRoleChange]_vars


(***************************************************************************)
(* PATCH /api/progress/:progressId, behind withRole(every role).  The      *)
(* handler reads the record's owner, decides, and updates the record: the  *)
(* read and the update are separate storage calls.                         *)
(***************************************************************************)
\* apiNotFound(resource, identifier)
apiNotFound == [status |-> 404, code |-> "NOT_FOUND", data |-> None, message |-> <<>>]

\* an id that matches no Progress record
GhostProgressId == <<"cuser9", "clesson9", 1>>

\* updateProgressSchema.safeParse(body).success: at least one field, score null or 0..100
updateProgressSchema(body) ==
  /\ \/ body.score.kind \in {"undefined", "null"}
     \/ body.score.kind = "integer" /\ body.score.n >= 0 /\ body.score.n <= 100
  /\ body.completed # None \/ body.score.kind # "undefined"

PatchBodies ==
  {[completed |-> Some(TRUE), score |-> JsonUndefined],
   [completed |-> None, score |-> JsonInt(50)],
   [completed |-> None, score |-> JsonUndefined]}

\* no header, the token of each stored user, and the token of a TEACHER
PatchHeaders ==
  {None, Some(Bearer(generateToken("cuser3", "TEACHER", now)))}
    \cup {Some(Bearer(generateToken(u.id, u.role, now))) : u \in users}

\* the handler's check: the owner, a TEACHER or an ADMIN may update the record
PatchAllowed(ownerId, user) ==
  ~(ownerId # user.id /\ user.role # "TEACHER" /\ user.role # "ADMIN")

\* if (!existingProgress) return apiNotFound("Progress record", progressId)
PatchMissing == apiNotFound

\* data: only the fields the body defines
PatchUpdateData(r, body) ==
  [r EXCEPT !.completed = IF body.completed = None THEN @ ELSE body.completed[1],
            !.score = IF body.score.kind = "undefined" THEN @ ELSE ScoreOf(body),
            !.updatedAt = now]

\* the wrapper, the validation, and the handler up to its first storage call
PatchReceive(p) ==
  /\ pc[p] = "idle"
  /\ \E hdr \in PatchHeaders, body \in PatchBodies,
        progressId \in {r.id : r \in progress} \cup {GhostProgressId} :
       LET auth == withRole(<<"STUDENT", "TEACHER", "ADMIN">>, hdr, now) IN
       /\ inp' = [inp EXCEPT ![p] = [op |-> "patch", hdr |-> hdr, body |-> body,
                                     progressId |-> progressId]]
       /\ IF auth.resp # None
          THEN /\ resp' = [resp EXCEPT ![p] = auth.resp[1]]
               /\ pc' = [pc EXCEPT ![p] = "done"]
               /\ loc' = loc
          ELSE IF ~updateProgressSchema(body)
          THEN /\ resp' = [resp EXCEPT ![p] = apiValidationError]
               /\ pc' = [pc EXCEPT ![p] = "done"]
               /\ loc' = loc
          ELSE /\ pc' = [pc EXCEPT ![p] = "patch_find"]
               /\ loc' = Enter(p, [at |-> "patch", solo |-> TRUE,
                                    user |-> auth.user[1],
                                    progressId |-> progressId,
                                    existed |-> FALSE, allowed |-> FALSE])
               /\ resp' = resp
  /\ UNCHANGED <<users, lessons, progress, nextUser, now, enrolled, committed>>

\* prisma.progress.findUnique({where: {id}, select: {userId}}) and the decision
PatchFind(p) ==
  /\ pc[p] = "patch_find"
  /\ LET found == {r \in progress : r.id = loc[p].progressId} IN
     IF found = {}
     THEN /\ resp' = [resp EXCEPT ![p] = PatchMissing]
          /\ pc' = [pc EXCEPT ![p] = "done"]
          /\ loc' = loc
     ELSE LET ownerId == (CHOOSE r \in found : TRUE).userId IN
          IF ~PatchAllowed(ownerId, loc[p].user)
          THEN /\ resp' = [resp EXCEPT ![p] =
                             apiForbidden(OwnProgressOnly, "INSUFFICIENT_PERMISSIONS")]
               /\ pc' = [pc EXCEPT ![p] = "done"]
               /\ loc' = [loc EXCEPT ![p].existed = TRUE]
          ELSE /\ pc' = [pc EXCEPT ![p] = "patch_update"]
               /\ loc' = [loc EXCEPT ![p].existed = TRUE, ![p].allowed = TRUE]
               /\ resp' = resp
  /\ UNCHANGED <<users, lessons, progress, nextUser, now, enrolled, inp, committed>>

\* prisma.progress.update({where: {id}, data}), apiSuccess; P2025 when the record is gone
PatchUpdate(p) ==
  /\ pc[p] = "patch_update"
  /\ LET found == {r \in progress : r.id = loc[p].progressId} IN
     IF found = {}
     THEN /\ resp' = [resp EXCEPT ![p] = CatchResponse("P2025")]
          /\ progress' = progress
     ELSE LET new == {PatchUpdateData(r, inp[p].body) : r \in found} IN
          /\ progress' = (progress \ found) \cup new
          /\ resp' = [resp EXCEPT ![p] = apiSuccess(CHOOSE r \in new : TRUE)]
  /\ pc' = [pc EXCEPT ![p] = "done"]
  /\ UNCHANGED <<users, lessons, nextUser, now, enrolled, inp, loc, committed>>

\* the syncs that create the records: each stored user, for itself, on one lesson
PatchSyncHeaders == {Some(Bearer(generateToken(u.id, u.role, now))) : u \in users}

PatchSyncBodies ==
  {b \in SyncBodies : b.lessonId = "clesson1" /\ createProgressSchema(b)
                        /\ b.completed = Some(FALSE) /\ b.score.kind = "null"}

NextPatch ==
  \E p \in Procs :
    \/ PatchReceive(p)
    \/ PatchFind(p)
    \/ PatchUpdate(p)
    \/ SyncReceiveFrom(p, PatchSyncHeaders, PatchSyncBodies)
    \/ SyncUpsertRead(p)
    \/ SyncUpsertUpdate(p)
    \/ SyncUpsertCreate(p)
    \/ Finish(p)

SpecPatch == Init /\ [][NextPatch]_vars


(***************************************************************************)
(* POST /api/auth/signup.  The handler validates the body, checks the      *)
(* privilege to create a TEACHER or ADMIN, looks the email up and creates  *)
(* the user: the lookup and the create are separate storage calls.         *)
(***************************************************************************)
\* signupSchema.safeParse(body).success
signupSchema(body) ==
  /\ length(body.name) >= 1 /\ length(body.name) <= 100
  /\ EmailFormatOk(body.email)
  /\ length(body.password) >= 8

\* signupSchema.safeParse(body).data: the keys of the schema, any other key of the
\* body is stripped
signupSchemaData(body) ==
  [name |-> body.name, email |-> emailToLowerCase(body.email),
   password |-> body.password]

\* const { role } = validationResult.data; const requestedRole = role || STUDENT
requestedRoleOf(data) ==
  LET role == IF "role" \in DOMAIN data THEN data.role ELSE None IN
  IF role = None THEN "STUDENT" ELSE role[1]

PrivilegeEscalation ==
  apiForbidden(<<"Only administrators can create TEACHER or ADMIN accounts">>,
               "PRIVILEGE_ESCALATION")

\* authHeader?.startsWith("Bearer ") ? authHeader.substring(7) : null
SignupToken(authHeader) ==
  IF authHeader = None THEN None
  ELSE LET h == authHeader[1] IN
       IF Len(h) >= 2 /\ h[1] = Word("Bearer") /\ h[2] = Sp
       THEN Some(SubSeq(h, 3, Len(h)))
       ELSE None

\* the privilege check: the response that refuses the request, or none
SignupRefusal(requestedRole, authHeader, t) ==
  IF requestedRole = "STUDENT" THEN None
  ELSE LET token == SignupToken(authHeader) IN
       IF NoToken(token) THEN Some(PrivilegeEscalation)
       ELSE LET payload == verifyToken(AsToken(token[1]), t) IN
            IF payload = None \/ payload[1].role # "ADMIN"
            THEN Some(PrivilegeEscalation)
            ELSE None

SignupBodies ==
  [name : {"Alice"}, email : {"Student@Orbit.edu", "new@orbit.edu"},
   password : {"password2", "short"},
   role : {None, Some("STUDENT"), Some("TEACHER"), Some("ADMIN")}]

SignupHeaders ==
  {None} \cup {Some(Bearer(generateToken(u.id, u.role, 0))) : u \in SeedUsers}

SignupReceive(p) ==
  /\ pc[p] = "idle"
  /\ \E body \in SignupBodies, hdr \in SignupHeaders :
       /\ inp' = [inp EXCEPT ![p] = [op |-> "signup", hdr |-> hdr, body |-> body]]
       /\ IF ~signupSchema(body)
          THEN /\ resp' = [resp EXCEPT ![p] = apiValidationError]
               /\ pc' = [pc EXCEPT ![p] = "done"]
               /\ loc' = loc
          ELSE LET data == signupSchemaData(body)
                   requestedRole == requestedRoleOf(data)
                   refusal == SignupRefusal(requestedRole, hdr, now)
               IN IF refusal # None
                  THEN /\ resp' = [resp EXCEPT ![p] = refusal[1]]
                       /\ pc' = [pc EXCEPT ![p] = "done"]
                       /\ loc' = loc
                  ELSE /\ pc' = [pc EXCEPT ![p] = "signup_find"]
                       /\ loc' = Enter(p, [at |-> "signup", solo |-> TRUE,
                                            name |-> data.name, email |-> data.email,
                                            password |-> data.password,
                                            requestedRole |-> requestedRole,
                                            created |-> None])
                       /\ resp' = resp
  /\ UNCHANGED <<users, lessons, progress, nextUser, now, enrolled, committed>>

\* prisma.user.findUnique({where: {email}}); if (existingUser) return apiConflict
SignupFind(p) ==
  /\ pc[p] = "signup_find"
  /\ IF \E u \in users : u.email = loc[p].email
     THEN /\ resp' = [resp EXCEPT ![p] = apiConflict]
          /\ pc' = [pc EXCEPT ![p] = "done"]
     ELSE /\ pc' = [pc EXCEPT ![p] = "signup_create"]
          /\ resp' = resp
  /\ UNCHANGED <<users, lessons, progress, nextUser, now, enrolled, inp, loc,
                 committed>>

\* hashPassword, prisma.user.create, generateToken, apiCreated; the catch block
\* answers the unique violation on email (P2002)
SignupCreate(p) ==
  /\ pc[p] = "signup_create"
  /\ IF \E u \in users : u.email = loc[p].email
     THEN /\ resp' = [resp EXCEPT ![p] = CatchResponse("P2002")]
          /\ UNCHANGED <<users, nextUser, loc>>
     ELSE /\ nextUser < Len(UserIdPool)
          /\ LET user == [id |-> UserIdPool[nextUser + 1], email |-> loc[p].email,
                          name |-> loc[p].name,
                          password |-> hashPassword(loc[p].password),
                          role |-> loc[p].requestedRole]
             IN /\ users' = users \cup {user}
                /\ nextUser' = nextUser + 1
                /\ loc' = [loc EXCEPT ![p].created = Some(user.id)]
                /\ resp' = [resp EXCEPT ![p] =
                     apiCreated([token |-> generateToken(user.id, user.role, now),
                                 user |-> [id |-> user.id, name |-> user.name,
                                           email |-> user.email,
                                           role |-> user.role]])]
  /\ pc' = [pc EXCEPT ![p] = "done"]
  /\ UNCHANGED <<lessons, progress, now, enrolled, inp, committed>>

NextSignup ==
  \E p \in Procs :
    \/ SignupReceive(p)
    \/ SignupFind(p)
    \/ SignupCreate(p)
    \/ Finish(p)

SpecSignup == Init /\ [][NextSignup]_vars


(***************************************************************************)
(* GET /api/users/:userId/dashboard, behind withAuth.                      *)
(***************************************************************************)
OwnDashboardOnly == <<"You can only access your own dashboard">>

\* no header, a made-up token, the token of each stored user, and of a TEACHER
DashboardHeaders ==
  {None, Some(Bearer(Garbage)), Some(Bearer(generateToken("cuser3", "TEACHER", now)))}
    \cup {Some(Bearer(generateToken(u.id, u.role, now))) : u \in users}

\* the wrapper and the handler up to its storage call
DashboardReceive(p) ==
  /\ pc[p] = "idle"
  /\ \E hdr \in DashboardHeaders, userId \in Range(UserIdPool) :
       LET auth == withAuth(hdr, now) IN
       /\ inp' = [inp EXCEPT ![p] = [op |-> "dashboard", hdr |-> hdr,
                                     userId |-> userId]]
       /\ IF auth.resp # None
          THEN /\ resp' = [resp EXCEPT ![p] = auth.resp[1]]
               /\ pc' = [pc EXCEPT ![p] = "done"]
               /\ loc' = loc
          ELSE IF userId # auth.userId
          THEN /\ resp' = [resp EXCEPT ![p] = apiForbidden(OwnDashboardOnly, "requestId")]
               /\ pc' = [pc EXCEPT ![p] = "done"]
               /\ loc' = [loc EXCEPT ![p] =
                            [at |-> "dashboard", solo |-> TRUE,
                             authenticatedUserId |-> auth.userId]]
          ELSE /\ pc' = [pc EXCEPT ![p] = "dashboard_find"]
               /\ loc' = Enter(p, [at |-> "dashboard", solo |-> TRUE,
                                    authenticatedUserId |-> auth.userId])
               /\ resp' = resp
  /\ UNCHANGED <<users, lessons, progress, nextUser, now, enrolled, committed>>

\* prisma.user.findUnique({where: {id: userId}, select: {..., progress}}), the
\* statistics, apiSuccess
DashboardFind(p) ==
  /\ pc[p] = "dashboard_find"
  /\ LET found == {u \in users : u.id = inp[p].userId} IN
     IF found = {}
     THEN resp' = [resp EXCEPT ![p] = apiNotFound]
     ELSE LET dashboardData == CHOOSE u \in found : TRUE
              rows == {r \in progress : r.userId = dashboardData.id}
          IN resp' = [resp EXCEPT ![p] =
                  apiSuccess([user |-> [id |-> dashboardData.id,
                                        name |-> dashboardData.name,
                                        email |-> dashboardData.email],
                              stats |-> [totalLessons |-> Cardinality(rows),
                                         completedLessons |->
                                           Cardinality({r \in rows : r.completed})],
                              progress |-> rows])]
  /\ pc' = [pc EXCEPT ![p] = "done"]
  /\ UNCHANGED <<users, lessons, progress, nextUser, now, enrolled, inp, loc,
                 committed>>

NextDashboard ==
  \E p \in Procs :
    \/ DashboardReceive(p)
    \/ DashboardFind(p)
    \/ Finish(p)

SpecDashboard == Init /\ [][NextDashboard]_vars


(***************************************************************************)
(* DELETE /api/progress/:progressId and DELETE /api/users/:userId: each is *)
(* one storage call.  Progress.userId references User ON DELETE CASCADE.   *)
(***************************************************************************)
\* apiNoContent(requestId)
apiNoContent == [status |-> 204, code |-> "", data |-> None, message |-> <<>>]

Deleter == "t1"

\* no header, the token of each seeded user, and the token of a TEACHER
DeleteHeaders ==
  {None, Some(Bearer(generateToken("cuser3", "TEACHER", now)))}
    \cup {Some(Bearer(generateToken(u.id, u.role, now))) : u \in SeedUsers}

\* prisma.progress.delete({where: {id: progressId}}), apiNoContent; the catch block
\* answers the missing record (P2025)
DeleteProgress(p) ==
  /\ pc[p] = "idle"
  /\ \E hdr \in DeleteHeaders,
        progressId \in {r.id : r \in progress} \cup {GhostProgressId} :
       LET found == {r \in progress : r.id = progressId} IN
       /\ inp' = [inp EXCEPT ![p] = [op |-> "deleteProgress", hdr |-> hdr,
                                     progressId |-> progressId]]
       /\ IF found = {}
          THEN /\ resp' = [resp EXCEPT ![p] = CatchResponse("P2025")]
               /\ progress' = progress
          ELSE /\ resp' = [resp EXCEPT ![p] = apiNoContent]
               /\ progress' = progress \ found
  /\ pc' = [pc EXCEPT ![p] = "done"]
  /\ UNCHANGED <<users, lessons, nextUser, now, enrolled, loc, committed>>

\* prisma.user.delete({where: {id: userId}}), apiNoContent; the catch block answers
\* the missing user (P2025); the user's Progress rows go with the user
DeleteUser(p) ==
  /\ pc[p] = "idle"
  /\ \E hdr \in DeleteHeaders, userId \in Range(UserIdPool) :
       LET found == {u \in users : u.id = userId} IN
       /\ inp' = [inp EXCEPT ![p] = [op |-> "deleteUser", hdr |-> hdr,
                                     userId |-> userId]]
       /\ IF found = {}
          THEN /\ resp' = [resp EXCEPT ![p] = CatchResponse("P2025")]
               /\ UNCHANGED <<users, progress>>
          ELSE /\ resp' = [resp EXCEPT ![p] = apiNoContent]
               /\ users' = users \ found
               /\ progress' = {r \in progress : r.userId # userId}
  /\ pc' = [pc EXCEPT ![p] = "done"]
  /\ UNCHANGED <<lessons, nextUser, now, enrolled, loc, committed>>

\* the syncs that create the records: each seeded user, for itself
DeleteSyncHeaders == {Some(Bearer(generateToken(u.id, u.role, now))) : u \in SeedUsers}

DeleteSyncBodies ==
  [userId : UserIds(SeedUsers), lessonId : LessonIds, completed : {Some(TRUE)},
   score : {JsonNull}]

NextDelete ==
  \/ DeleteProgress(Deleter)
  \/ DeleteUser(Deleter)
  \/ Finish(Deleter)
  \/ SyncReceiveFrom(Syncer, DeleteSyncHeaders, DeleteSyncBodies)
  \/ SyncUpsertRead(Syncer)
  \/ SyncUpsertUpdate(Syncer)
  \/ SyncUpsertCreate(Syncer)
  \/ Finish(Syncer)

SpecDelete == Init /\ [][NextDelete]_vars


(***************************************************************************)
(* The authorization evaluator on its own: one of its functions is called  *)
(* with arguments and returns.                                             *)
(***************************************************************************)
Evaluator == "t1"

RbacCalls ==
  [fn : {"canModifyResource", "canViewResource"},
   authenticatedUserId : Range(UserIdPool), resourceOwnerId : Range(UserIdPool),
   userRole : Roles, minimumRole : {"STUDENT"}]
  \cup
  [fn : {"hasMinimumRole"},
   authenticatedUserId : {"cuser1"}, resourceOwnerId : {"cuser1"},
   userRole : Roles, minimumRole : Roles]

RbacCall(p) ==
  /\ pc[p] = "idle"
  /\ \E call \in RbacCalls :
       inp' = [inp EXCEPT ![p] = [op |-> "rbac", call |-> call]]
  /\ pc' = [pc EXCEPT ![p] = "rbac_eval"]
  /\ UNCHANGED <<users, lessons, progress, nextUser, now, enrolled, loc, resp,
                 committed>>

RbacReturn(p) ==
  /\ pc[p] = "rbac_eval"
  /\ LET c == inp[p].call IN
     loc' = [loc EXCEPT ![p] =
               [at |-> "rbac", solo |-> TRUE,
                result |->
                  CASE c.fn = "canModifyResource" ->
                         canModifyResource(c.authenticatedUserId, c.resourceOwnerId,
                                           c.userRole)
                    [] c.fn = "canViewResource" ->
                         canViewResource(c.authenticatedUserId, c.resourceOwnerId,
                                         c.userRole)
                    [] c.fn = "hasMinimumRole" ->
                         hasMinimumRole(c.userRole, c.minimumRole)]]
  /\ pc' = [pc EXCEPT ![p] = "done"]
  /\ UNCHANGED <<users, lessons, progress, nextUser, now, enrolled, inp, resp,
                 committed>>

NextRbac ==
  \/ RbacCall(Evaluator)
  \/ RbacReturn(Evaluator)
  \/ Finish(Evaluator)

SpecRbac == Init /\ [][NextRbac]_vars


(***************************************************************************)
(* extractTokenFromHeader on its own: it is called with the value of an    *)
(* Authorization header and returns.                                       *)
(***************************************************************************)
Extractor == "t1"

HeaderAtoms ==
  {Word("Bearer"), Word("bearer"), Word("Basic"), Sp,
   Tok(generateToken("cuser1", "STUDENT", 0)), Tok(Garbage)}

\* request.headers.get("Authorization"): null or a string
AuthHeaders ==
  {None} \cup {Some(h) : h \in UNION {[1..n -> HeaderAtoms] : n \in 0..MaxHeaderLen}}

ExtractCall(p) ==
  /\ pc[p] = "idle"
  /\ \E authHeader \in AuthHeaders :
       inp' = [inp EXCEPT ![p] = [op |-> "extract", authHeader |-> authHeader]]
  /\ pc' = [pc EXCEPT ![p] = "extract_eval"]
  /\ UNCHANGED <<users, lessons, progress, nextUser, now, enrolled, loc, resp,
                 committed>>

ExtractReturn(p) ==
  /\ pc[p] = "extract_eval"
  /\ loc' = [loc EXCEPT ![p] =
               [at |-> "extract", solo |-> TRUE,
                token |-> extractTokenFromHeader(inp[p].authHeader)]]
  /\ pc' = [pc EXCEPT ![p] = "done"]
  /\ UNCHANGED <<users, lessons, progress, nextUser, now, enrolled, inp, resp,
                 committed>>

NextExtract ==
  \/ ExtractCall(Extractor)
  \/ ExtractReturn(Extractor)
  \/ Finish(Extractor)

SpecExtract == Init /\ [][NextExtract]_vars


(***************************************************************************)
(* Properties of the reconciliation engine (sync).                         *)
(***************************************************************************)
\* the caller's verified claims, read off the request's header
ClaimsOf(hdr, t) == verifyToken(AsToken(extractTokenFromHeader(hdr)[1]), t)
Verified(hdr, t) ==
  /\ ~NoToken(extractTokenFromHeader(hdr))
  /\ ClaimsOf(hdr, t) # None

\* the stored values a sync body asks for: an omitted or null score is null
Wanted(body) ==
  [completed |-> body.completed[1],
   score |-> IF body.score.kind \in {"undefined", "null"} THEN None
             ELSE Some(body.score.n)]
Stored(r) == [completed |-> r.completed, score |-> r.score]

SameKey(p, q) ==
  loc[p].userId = loc[q].userId /\ loc[p].lessonId = loc[q].lessonId
KeyRows(tbl, p) == ProgressByKey(tbl, loc[p].userId, loc[p].lessonId)

\* C1: two overlapping sync submissions for one (subjectId, lessonId) both get a
\* success response, leave exactly one Progress record for the key, and the
\* record holds completed and score of the submission committed last.
C1_OverlappingSyncsBothSucceed ==
  \A p, q \in Procs :
    ( /\ p # q
      /\ pc[p] = "done" /\ pc[q] = "done"
      /\ loc[p].at = "sync" /\ loc[q].at = "sync"
      /\ ~loc[p].solo /\ ~loc[q].solo
      /\ SameKey(p, q)
      /\ loc[p].lessonId \in lessons )
    => /\ resp[p].status = 201
       /\ resp[q].status = 201
       /\ Cardinality(KeyRows(progress, p)) = 1
       /\ \A r \in KeyRows(progress, p) :
            \E c \in committed :
              /\ c.userId = r.userId /\ c.lessonId = r.lessonId
              /\ Stored(c) = Stored(r)

\* C2: a sync whose values are already stored for the key, with no other
\* request overlapping it (the second of two identical syncs in succession),
\* answers 201 and leaves the Progress table exactly as it was, one record for
\* the key.
C2_SyncTwiceIsSyncOnce ==
  [][ \A p \in Procs :
        ( /\ pc[p] = "sync_write" /\ pc'[p] = "done"
          /\ loc[p].solo
          /\ \E r \in KeyRows(progress, p) : Stored(r) = Wanted(inp[p].body) )
        => /\ resp'[p].status = 201
           /\ progress' = progress
           /\ Cardinality(KeyRows(progress', p)) = 1
           /\ resp'[p].data # None /\ resp'[p].data[1] \in progress' ]_vars

\* a second identical sync was answered 201 after it read the row the first created
C2_Witness ==
  \E p, q \in Procs :
    /\ p # q /\ pc[p] = "done" /\ pc[q] = "done"
    /\ loc[p].at = "sync" /\ loc[q].at = "sync"
    /\ inp[p].body = inp[q].body
    /\ resp[p].status = 201 /\ resp[q].status = 201
    /\ loc[p].found = {} /\ loc[q].solo /\ loc[q].found = {resp[p].data[1].id}
    /\ \A r \in KeyRows(progress, q) : Stored(r) = Wanted(inp[q].body)

\* C3: a sync on a stored lesson that no other request overlaps answers 201 and
\* leaves exactly one record for the key holding the submitted completed and
\* score (null when the score is omitted or null), whatever was stored before;
\* it inserts the record when there was none and touches no other key.
C3_SyncReplacesBothFields ==
  [][ \A p \in Procs :
        ( /\ pc[p] = "sync_write" /\ pc'[p] = "done"
          /\ loc[p].solo
          /\ loc[p].lessonId \in lessons )
        => /\ resp'[p].status = 201
           /\ Cardinality(KeyRows(progress', p)) = 1
           /\ \A r \in KeyRows(progress', p) : Stored(r) = Wanted(inp[p].body)
           /\ progress' \ KeyRows(progress', p) = progress \ KeyRows(progress, p)
           /\ Cardinality(progress') =
                IF KeyRows(progress, p) = {} THEN Cardinality(progress) + 1
                ELSE Cardinality(progress) ]_vars

\* sync(u, l, true, 90) created the record and sync(u, l, false, null) replaced it
C3_Witness ==
  \E p, q \in Procs :
    /\ p # q /\ pc[p] = "done" /\ pc[q] = "done"
    /\ loc[p].at = "sync" /\ loc[q].at = "sync" /\ SameKey(p, q)
    /\ Wanted(inp[p].body) = [completed |-> TRUE, score |-> Some(90)]
    /\ Wanted(inp[q].body) = [completed |-> FALSE, score |-> None]
    /\ resp[p].status = 201 /\ resp[q].status = 201
    /\ loc[p].found = {} /\ loc[q].solo /\ loc[q].found = {resp[p].data[1].id}
    /\ \A r \in KeyRows(progress, q) : Stored(r) = [completed |-> FALSE, score |-> None]

\* C4: every well-formed sync request of the owner that names a stored lesson is
\* answered with a 2xx status carrying the stored record.
C4_WellFormedSyncAlways2xx ==
  \A p \in Procs :
    ( /\ pc[p] = "done"
      /\ inp[p].op = "sync"
      /\ Verified(inp[p].hdr, now)
      /\ createProgressSchema(inp[p].body)
      /\ ClaimsOf(inp[p].hdr, now)[1].userId = inp[p].body.userId
      /\ inp[p].body.lessonId \in lessons )
    => /\ resp[p].status >= 200 /\ resp[p].status <= 299
       /\ resp[p].data # None

EnrollAnswers(p) ==
  /\ inp[p].op = "enroll"
  /\ pc[p] \in TxStates
  /\ pc'[p] = "done"

UsersByEmail(tbl, email) == {u \in tbl : u.email = email}

\* C5: an enrollment for an email that an earlier enrollment was committed for,
\* whatever syncs came in between, answers 201 (storage faults aside), leaves
\* exactly one principal with that email, and every Progress record that was
\* completed=true before the answer is there unchanged after it.
C5_EnrollTwiceNoErrorNoReset ==
  [][(EnrollAnswers(Enroller) /\ loc[Enroller].email \in enrolled
        /\ ~loc'[Enroller].fault)
     => /\ resp'[Enroller].status = 201
        /\ Cardinality(UsersByEmail(users', loc[Enroller].email)) = 1
        /\ \A r \in progress : r.completed => r \in progress']_vars

\* the second enrollment answered, after a sync had completed a lesson of the
\* principal with a score
C5_Witness ==
  /\ pc[Enroller] = "done"
  /\ inp[Enroller].op = "enroll"
  /\ resp[Enroller].status = 201
  /\ loc[Enroller].touched # {}
  /\ loc[Enroller].rows = {}
  /\ \E r \in progress :
       /\ r.id \in loc[Enroller].touched
       /\ r.completed /\ r.score = Some(90)
       /\ \E u \in users : u.id = r.userId /\ u.email = loc[Enroller].email

\* C6: while an enrollment is in its transaction, and when it ends in anything
\* but its commit, none of its steps changes the stored User and Progress rows:
\* what it wrote stays with the task and is visible to no reader.
C6_EnrollAllOrNothing ==
  [][(inp[Enroller].op = "enroll" /\ pc[Enroller] \in TxStates
        /\ <<pc[Enroller], loc[Enroller]>>' # <<pc[Enroller], loc[Enroller]>>
        /\ ~(pc'[Enroller] = "done" /\ resp'[Enroller].status = 201))
     => /\ users' = users
        /\ progress' = progress]_vars

\* an enrollment failed after it had upserted its principal and inserted a
\* Progress row, and neither is stored
C6_Witness ==
  /\ pc[Enroller] = "done"
  /\ inp[Enroller].op = "enroll"
  /\ resp[Enroller].status >= 400
  /\ loc[Enroller].at = "enroll"
  /\ loc[Enroller].user # None
  /\ loc[Enroller].rows # {}
  /\ loc[Enroller].rows \cap progress = {}
  /\ loc[Enroller].user[1] \notin users

\* C7: the commit of an enrollment for an email that has a principal changes, of
\* that principal, the name and the password hash only, leaves every other user
\* and every stored Progress record as it was, and adds one record
\* (completed=false, score=null) for exactly the lessons the principal had none for.
C7_EnrollExistingFrame ==
  [][(EnrollAnswers(Enroller) /\ resp'[Enroller].status = 201
        /\ UsersByEmail(users, loc[Enroller].email) # {})
     => LET old == CHOOSE u \in UsersByEmail(users, loc[Enroller].email) : TRUE
            new == [old EXCEPT !.name = loc[Enroller].name,
                               !.password = loc[Enroller].password] IN
        /\ users' = (users \ {old}) \cup {new}
        /\ progress \subseteq progress'
        /\ \A r \in progress' \ progress :
             /\ r.userId = old.id /\ r.lessonId \in lessons
             /\ r.completed = FALSE /\ r.score = None
             /\ ProgressByKey(progress, old.id, r.lessonId) = {}
        /\ \A l \in lessons :
             Cardinality(ProgressByKey(progress', old.id, l)) = 1]_vars

\* an enrollment for the administrator's email was committed: a record completed
\* by a sync was kept and a record for the other lesson was created
C7_Witness ==
  /\ pc[Enroller] = "done"
  /\ inp[Enroller].op = "enroll"
  /\ resp[Enroller].status = 201
  /\ loc[Enroller].touched # {}
  /\ loc[Enroller].rows # {}
  /\ \E u \in users :
       /\ u.email = loc[Enroller].email /\ u.role = "ADMIN"
       /\ u.name = loc[Enroller].name /\ u.password = loc[Enroller].password
       /\ \E r \in progress :
            r.userId = u.id /\ r.id \in loc[Enroller].touched /\ r.completed

\* task p's enrollment, whose body passed validation, has been answered
Enrolled(p) ==
  pc[p] = "done" /\ inp[p].op = "enroll" /\ createUserSchema(inp[p].body)

MalformedSync(body) ==
  \/ body.userId = BadId
  \/ body.lessonId = BadId
  \/ body.completed = None
  \/ body.score.kind = "fraction"
  \/ body.score.kind = "integer" /\ (body.score.n < 0 \/ body.score.n > 100)

\* the body of an enroll breaks a rule of its schema: an empty name, a malformed
\* email, a password shorter than 8
MalformedEnroll(body) ==
  \/ body.name = ""
  \/ body.email = "not-an-email"
  \/ body.password = "short"

\* the request task p takes up in this step has a malformed body (a sync is one
\* that passed the gateway, which runs before the handler reads the body)
TakesUpMalformed(p) ==
  /\ pc[p] = "idle"
  /\ pc'[p] # "idle"
  /\ \/ /\ inp'[p].op = "sync"
        /\ withAuth(inp'[p].hdr, now).resp = None
        /\ MalformedSync(inp'[p].body)
     \/ /\ inp'[p].op = "enroll"
        /\ MalformedEnroll(inp'[p].body)

\* C28: a sync (of an authenticated caller) or an enroll whose body fails schema
\* validation is answered 400 VALIDATION_ERROR in the step that receives it, with
\* no storage step of the request before or after, and the stored principals and
\* Progress records are unchanged.
C28_ValidationBeforeStorage ==
  [][\A p \in Procs :
       TakesUpMalformed(p) =>
         /\ pc'[p] = "done"
         /\ resp'[p] = apiValidationError
         /\ loc'[p] = loc[p]
         /\ UNCHANGED <<users, lessons, progress, nextUser, enrolled, committed>>]_vars

\* a sync with a score of 150 and an enroll with a short password, both answered
\* 400 while the tables are as they were seeded
C28_Witness ==
  /\ pc[Syncer] = "done" /\ inp[Syncer].op = "sync"
  /\ withAuth(inp[Syncer].hdr, now).resp = None
  /\ inp[Syncer].body.score = JsonInt(150)
  /\ resp[Syncer] = apiValidationError
  /\ pc[Enroller] = "done" /\ inp[Enroller].op = "enroll"
  /\ inp[Enroller].body.password = "short"
  /\ resp[Enroller] = apiValidationError
  /\ users = SeedUsers /\ progress = {}

(***************************************************************************)
(* Properties of the gateway.                                              *)
(***************************************************************************)
\* the request carried, in Bearer form, a token the server issued to a subject and
\* that had not expired when the request arrived
ValidToken(req) == req.kind = "issued" /\ req.at < req.iat + TTL

\* the wrapper called the handler of task p
Invoked(p) ==
  /\ inp[p].op = "gateway"
  /\ pc[p] = "gw_handler" \/ (pc[p] = "done" /\ loc[p].ran)

\* C9: the handler of a withAuth or withRole route is called only for a request
\* with a valid token (and, under withRole, a role in allowedRoles), with the
\* subject id (and role) the token was issued for; a request the wrapper refuses
\* never reaches the handler body.
C9_HandlerOnlyAfterVerification ==
  \A p \in Procs :
    /\ Invoked(p) =>
         /\ ValidToken(inp[p])
         /\ loc[p].arg.userId = inp[p].userId
         /\ inp[p].route = "withRole" =>
              /\ inp[p].role \in inp[p].allowedRoles
              /\ loc[p].arg.role = inp[p].role
    /\ (inp[p].op = "gateway" /\ pc[p] = "done"
          /\ (~ValidToken(inp[p])
              \/ (inp[p].route = "withRole" /\ inp[p].role \notin inp[p].allowedRoles)))
       => ~loc[p].ran

\* the handler body of a role-protected route ran for a caller whose role is allowed
C9_Witness ==
  /\ pc[Caller] = "done"
  /\ inp[Caller].op = "gateway"
  /\ inp[Caller].route = "withRole"
  /\ loc[Caller].ran
  /\ inp[Caller].allowedRoles = {"TEACHER", "ADMIN"}
  /\ loc[Caller].arg = [userId |-> "cuser2", role |-> "ADMIN"]

\* C10: under withAuth and under withRole alike, a request with no Authorization
\* header or one not of Bearer form is answered 401 MISSING_TOKEN, a request whose
\* Bearer token does not verify is answered 401 INVALID_TOKEN, and no request
\* without a valid token is answered 403, whatever allowedRoles is.
C10_AuthenticationDecidedFirst ==
  \A p \in Procs :
    (inp[p].op = "gateway" /\ pc[p] \in {"gw_handler", "done"}) =>
      /\ inp[p].kind \in {"absent", "malformed"} =>
           (pc[p] = "done" /\ resp[p].status = 401 /\ resp[p].code = "MISSING_TOKEN")
      /\ (inp[p].kind = "invalid" \/ (inp[p].kind = "issued" /\ ~ValidToken(inp[p]))) =>
           (pc[p] = "done" /\ resp[p].status = 401 /\ resp[p].code = "INVALID_TOKEN")
      /\ ~ValidToken(inp[p]) => resp[p].status # 403

\* an expired token of a subject whose role the route does not allow: answered
\* 401 INVALID_TOKEN
C10_Witness ==
  /\ pc[Caller] = "done"
  /\ inp[Caller].op = "gateway"
  /\ inp[Caller].route = "withRole"
  /\ inp[Caller].kind = "issued"
  /\ inp[Caller].at >= inp[Caller].iat + TTL
  /\ inp[Caller].role \notin inp[Caller].allowedRoles
  /\ resp[Caller].status = 401
  /\ resp[Caller].code = "INVALID_TOKEN"

\* a role-protected request whose token is valid has reached the wrapper's answer
RoleDecided(p) ==
  /\ inp[p].op = "gateway"
  /\ inp[p].route = "withRole"
  /\ pc[p] \in {"gw_handler", "done"}
  /\ ValidToken(inp[p])

\* the pieces sq[i..i+2] are a, b, c for some i
Adjacent(sq, a, b, c) ==
  \E i \in 1..(Len(sq) - 2) : sq[i] = a /\ sq[i + 1] = b /\ sq[i + 2] = c

\* C11: withRole answers a verified token whose role is not in allowedRoles with
\* 403, code FORBIDDEN and a message that names every role of allowedRoles
\* ("TEACHER or ADMIN" for a [TEACHER, ADMIN] route); a verified token whose role
\* is in allowedRoles is not answered 403 by the wrapper: the handler is called.
C11_WrongRoleIs403NamingRoles ==
  \A p \in Procs :
    RoleDecided(p) =>
      IF inp[p].role \notin inp[p].allowedRoles
      THEN /\ pc[p] = "done"
           /\ resp[p].status = 403
           /\ resp[p].code = "FORBIDDEN"
           /\ inp[p].allowedRoles \subseteq Range(resp[p].message)
           /\ inp[p].roleList = <<"TEACHER", "ADMIN">> =>
                Adjacent(resp[p].message, "TEACHER", " or ", "ADMIN")
      ELSE /\ pc[p] = "gw_handler" \/ loc[p].ran
           /\ resp[p].status # 403

\* a STUDENT token on a [TEACHER, ADMIN] route was answered 403 FORBIDDEN
C11_Witness ==
  /\ RoleDecided(Caller)
  /\ inp[Caller].role = "STUDENT"
  /\ inp[Caller].roleList = <<"TEACHER", "ADMIN">>
  /\ resp[Caller].status = 403
  /\ resp[Caller].code = "FORBIDDEN"
  /\ Adjacent(resp[Caller].message, "TEACHER", " or ", "ADMIN")

(***************************************************************************)
(* Properties of the token service.                                        *)
(***************************************************************************)
\* task p holds a token that was verified at least once
Checked(p) == pc[p] \in {"tok_held", "done"} /\ loc[p].at = "token" /\ loc[p].checked

\* C12: a token issued for (id, role), verified before its exp, verifies and
\* yields claims with that id and that role, for every id and every role.
C12_VerifyOfIssueReturnsClaims ==
  \A p \in Procs :
    (Checked(p) /\ loc[p].issued /\ loc[p].checkedAt < loc[p].tok.exp)
    => loc[p].result = Some([userId |-> loc[p].userId, role |-> loc[p].role])

\* a token issued to the third user as TEACHER was verified in time
C12_Witness ==
  /\ Checked(Holder)
  /\ loc[Holder].issued
  /\ loc[Holder].checkedAt < loc[Holder].tok.exp
  /\ loc[Holder].result = Some([userId |-> "cuser3", role |-> "TEACHER"])

\* C13 as stated: a token verified after its exp fails with the Expired outcome,
\* whether or not its signature is valid.
C13_PastExpAlwaysExpiredOutcome ==
  \A p \in Procs :
    (Checked(p) /\ loc[p].checkedAt > loc[p].tok.exp)
    => loc[p].result = None /\ loc[p].outcome = "Expired"

\* C13 amended: a token verified at or after its exp is refused (verifyToken
\* returns null) on every verification, whether or not its signature is valid,
\* also when it was accepted before; the outcome inside jwt.verify is Expired
\* only for a well-formed HS256 token with a valid signature, and is the
\* malformation, algorithm or signature failure otherwise.
C13_PastExpAlwaysRefused ==
  \A p \in Procs :
    (Checked(p) /\ loc[p].checkedAt >= loc[p].tok.exp)
    => /\ loc[p].result = None
       /\ LET tok == loc[p].tok IN
          IF tok.alg = "HS256"
             /\ tok.sig = Mac(SECRET, tok.alg, tok.userId, tok.role, tok.iat, tok.exp)
          THEN loc[p].outcome = "Expired"
          ELSE loc[p].outcome \in {"Malformed", "InvalidAlgorithm", "InvalidSignature"}

\* a token that was accepted earlier was refused as Expired once the clock had
\* reached its exp
C13_Witness ==
  /\ Checked(Holder)
  /\ loc[Holder].accepted
  /\ loc[Holder].checkedAt >= loc[Holder].tok.exp
  /\ loc[Holder].result = None
  /\ loc[Holder].outcome = "Expired"

\* the token task p holds is, field for field, the one generateToken returned to it
Untouched(p) ==
  /\ loc[p].issued
  /\ loc[p].tok = generateToken(loc[p].userId, loc[p].role, loc[p].tok.iat)

\* C25: verify returns claims only for a token that issue produced with the server
\* secret under HS256: a token whose subjectId, role or exp was altered after
\* issuance, or whose header names another algorithm (none included), is rejected,
\* so the claims verify returns are the (subjectId, role) of the issue call.
C25_OnlyIssuedTokensVerify ==
  \A p \in Procs :
    Checked(p) =>
      /\ ~Untouched(p) => loc[p].result = None
      /\ loc[p].result # None =>
           loc[p].result = Some([userId |-> loc[p].userId, role |-> loc[p].role])

\* an issued STUDENT token whose role was edited to ADMIN was rejected before its exp
C25_Witness ==
  /\ Checked(Holder)
  /\ loc[Holder].issued
  /\ loc[Holder].role = "STUDENT"
  /\ loc[Holder].tok.role = "ADMIN"
  /\ loc[Holder].tok.alg = "HS256"
  /\ loc[Holder].checkedAt < loc[Holder].tok.exp
  /\ loc[Holder].result = None

(***************************************************************************)
(* Properties of login.                                                    *)
(***************************************************************************)
\* task p's login was refused for its credentials
LoginRefused(p) ==
  /\ pc[p] = "done"
  /\ inp[p].op = "login"
  /\ loginSchema(inp[p].body)
  /\ resp[p].status # 200

\* C14: of two login requests with the same password that are refused, one for
\* an email that has a principal and one for an email that has none, the
\* responses have the same status, the same code and the same message.
C14_LoginRefusalsIndistinguishable ==
  \A p, q \in Procs :
    ( /\ LoginRefused(p) /\ LoginRefused(q)
      /\ inp[p].body.password = inp[q].body.password
      /\ loc[p].known /\ ~loc[q].known )
    => /\ resp[p].status = resp[q].status
       /\ resp[p].code = resp[q].code
       /\ resp[p].message = resp[q].message
       /\ resp[p].data = resp[q].data

\* the administrator's email with a wrong password and an unknown email with the
\* same password were both refused
C14_Witness ==
  \E p, q \in Procs :
    /\ LoginRefused(p) /\ LoginRefused(q)
    /\ inp[p].body = [email |-> "admin@orbit.edu", password |-> "password2"]
    /\ inp[q].body = [email |-> "new@orbit.edu", password |-> "password2"]
    /\ loc[p].known /\ ~loc[q].known
    /\ resp[p].message = InvalidCredentials

(***************************************************************************)
(* Properties of PATCH /api/progress/:progressId.                          *)
(***************************************************************************)
\* task p's PATCH, by a caller who is neither TEACHER nor ADMIN, changed nothing
PatchNotPermitted(p) ==
  /\ pc[p] = "done"
  /\ inp[p].op = "patch"
  /\ loc[p].at = "patch"
  /\ loc[p].user.role = "STUDENT"
  /\ ~loc[p].allowed

\* C15: of two PATCH requests by a caller who may not modify the record named, one
\* naming a record that exists (and is another subject's) and one naming an id
\* no record has, the responses have the same status and the same code.
C15_PatchRefusalHidesExistence ==
  \A p, q \in Procs :
    ( /\ PatchNotPermitted(p) /\ PatchNotPermitted(q)
      /\ loc[p].user = loc[q].user
      /\ inp[p].body = inp[q].body
      /\ loc[p].existed /\ ~loc[q].existed )
    => /\ resp[p].status = resp[q].status
       /\ resp[p].code = resp[q].code

(***************************************************************************)
(* Properties of the authorization evaluator.                              *)
(***************************************************************************)
\* task p's call of fn has returned
Returned(p, fn) ==
  pc[p] = "done" /\ inp[p].op = "rbac" /\ inp[p].call.fn = fn

\* C16: canModifyResource(requesterId, ownerId, role) is true exactly when
\* requesterId = ownerId or role = ADMIN.
C16_CanModifyIffOwnerOrAdmin ==
  \A p \in Procs :
    Returned(p, "canModifyResource") =>
      LET c == inp[p].call IN
      loc[p].result =
        (c.authenticatedUserId = c.resourceOwnerId \/ c.userRole = "ADMIN")

\* a TEACHER who is not the owner was refused
C16_Witness ==
  /\ Returned(Evaluator, "canModifyResource")
  /\ inp[Evaluator].call.userRole = "TEACHER"
  /\ inp[Evaluator].call.authenticatedUserId # inp[Evaluator].call.resourceOwnerId
  /\ loc[Evaluator].result = FALSE

\* C17: canViewResource(requesterId, ownerId, role) is true exactly when
\* requesterId = ownerId or role is TEACHER or ADMIN.
C17_CanViewIffOwnerOrViewAll ==
  \A p \in Procs :
    Returned(p, "canViewResource") =>
      LET c == inp[p].call IN
      loc[p].result =
        (c.authenticatedUserId = c.resourceOwnerId
           \/ c.userRole \in {"TEACHER", "ADMIN"})

\* a TEACHER who is not the owner was let through
C17_Witness ==
  /\ Returned(Evaluator, "canViewResource")
  /\ inp[Evaluator].call.userRole = "TEACHER"
  /\ inp[Evaluator].call.authenticatedUserId # inp[Evaluator].call.resourceOwnerId
  /\ loc[Evaluator].result = TRUE

\* the place of a role in the order STUDENT < TEACHER < ADMIN
Rank(role) ==
  CHOOSE i \in 1..3 : <<"STUDENT", "TEACHER", "ADMIN">>[i] = role

\* C18: hasMinimumRole(role, minimum) is true exactly when role is at or above
\* minimum in the order STUDENT < TEACHER < ADMIN; so it is true of (r, r), false
\* of (STUDENT, ADMIN), true of (ADMIN, STUDENT), and of two distinct roles
\* exactly one direction holds.
C18_HasMinimumRoleIsTheOrder ==
  /\ \A p \in Procs :
       Returned(p, "hasMinimumRole") =>
         LET c == inp[p].call IN
         /\ loc[p].result = (Rank(c.userRole) >= Rank(c.minimumRole))
         /\ c.userRole = c.minimumRole => loc[p].result
         /\ (c.userRole = "STUDENT" /\ c.minimumRole = "ADMIN") => ~loc[p].result
         /\ (c.userRole = "ADMIN" /\ c.minimumRole = "STUDENT") => loc[p].result
  /\ \A r1, r2 \in Roles :
       r1 # r2 => (hasMinimumRole(r1, r2) # hasMinimumRole(r2, r1))

\* hasMinimumRole(ADMIN, STUDENT) returned true
C18_Witness ==
  /\ Returned(Evaluator, "hasMinimumRole")
  /\ inp[Evaluator].call.userRole = "ADMIN"
  /\ inp[Evaluator].call.minimumRole = "STUDENT"
  /\ loc[Evaluator].result = TRUE

(***************************************************************************)
(* Properties of extractTokenFromHeader.                                   *)
(***************************************************************************)
\* task p's call of extractTokenFromHeader has returned
Extracted(p) == pc[p] = "done" /\ inp[p].op = "extract"

\* h is "<scheme> <rest>" with one space, the scheme being bearer in any case
BearerShape(h) ==
  /\ Len(h) >= 2
  /\ h[1] \in {Word("Bearer"), Word("bearer")}
  /\ h[2] = Sp
  /\ \A i \in 3..Len(h) : h[i] # Sp

\* C19: extractFromHeader returns the token only for a header of exactly two
\* space-separated parts whose first part is 'bearer' in any case; for every other
\* value (null, empty, missing scheme, other scheme, more than two parts, or
\* 'Bearer ' with an empty token) it returns absent, never an empty token.
C19_ExtractOnlyFromBearerToken ==
  \A p \in Procs :
    Extracted(p) =>
      LET authHeader == inp[p].authHeader
          token == loc[p].token
          h == authHeader[1]
      IN /\ token # Some(<<>>)
         /\ IF authHeader # None /\ BearerShape(h) /\ Len(h) > 2
            THEN token = Some(SubSeq(h, 3, Len(h)))
            ELSE token = None

(***************************************************************************)
(* Properties of signup.                                                   *)
(***************************************************************************)
\* task p's signup, whose body passed validation, has been answered
SignedUp(p) ==
  pc[p] = "done" /\ inp[p].op = "signup" /\ signupSchema(inp[p].body)

\* the request carries a valid token of an ADMIN
CarriesAdminToken(p) ==
  LET token == SignupToken(inp[p].hdr) IN
  /\ ~NoToken(token)
  /\ LET payload == verifyToken(AsToken(token[1]), now) IN
     payload # None /\ payload[1].role = "ADMIN"

\* C20: a signup that asks for role TEACHER or ADMIN and carries no valid ADMIN
\* token is answered 403 and creates no principal; a signup without a role that
\* creates a principal creates a STUDENT; no signup without an ADMIN token ever
\* leaves a principal with role TEACHER or ADMIN.
C20_SignupNeverEscalates ==
  /\ \A p \in Procs :
       SignedUp(p) =>
         /\ (inp[p].body.role \in {Some("TEACHER"), Some("ADMIN")}
               /\ ~CarriesAdminToken(p))
              => (resp[p].status = 403 /\ resp[p].data = None)
         /\ (inp[p].body.role = None /\ resp[p].status = 201)
              => resp[p].data[1].user.role = "STUDENT"
  /\ \A u \in users \ SeedUsers : u.role = "STUDENT"

\* the signups of the two tasks that passed validation, are answered and name email
AnsweredFor(email) ==
  {p \in Procs : SignedUp(p) /\ emailToLowerCase(inp[p].body.email) = email}

\* C21: a signup with an email a principal already holds is answered 409 CONFLICT
\* and creates nothing; however concurrent signups with the same email interleave,
\* at most one principal holds the email, at most one of them is answered 201 and
\* every other one 409.
C21_DuplicateSignupIsConflict ==
  /\ \A u1, u2 \in users : u1.email = u2.email => u1 = u2
  /\ \A p \in Procs :
       SignedUp(p) =>
         /\ resp[p].status \in {201, 409}
         /\ resp[p].status = 409 =>
              /\ resp[p].code = "CONFLICT"
              /\ loc[p].at = "signup" => loc[p].created = None
         /\ resp[p].status = 201 =>
              \E u \in users : u.id = loc[p].created[1] /\ u.email = loc[p].email
         /\ (\E u \in SeedUsers : u.email = emailToLowerCase(inp[p].body.email))
              => resp[p].status = 409
         /\ Cardinality({u \in users : u.email = emailToLowerCase(inp[p].body.email)}) = 1
  /\ \A p, q \in Procs :
       (p # q /\ {p, q} \subseteq AnsweredFor("new@orbit.edu"))
         => ~(resp[p].status = 201 /\ resp[q].status = 201)

\* two overlapping signups with the same new email: one answered 201, the other 409
C21_Witness ==
  /\ AnsweredFor("new@orbit.edu") = Procs
  /\ \A p \in Procs : loc[p].at = "signup" /\ ~loc[p].solo
  /\ resp["t1"].status = 201
  /\ resp["t2"].status = 409
  /\ Cardinality({u \in users : u.email = "new@orbit.edu"}) = 1

(***************************************************************************)
(* Properties of the dashboard.                                            *)
(***************************************************************************)
\* the claims of the token task p's request carries
CallerOf(p) == verifyToken(AsToken(extractTokenFromHeader(inp[p].hdr)[1]), now)

\* task p's dashboard request, from a verified caller, has been answered
DashboardAnswered(p) ==
  /\ pc[p] = "done" /\ inp[p].op = "dashboard"
  /\ resp[p].status # 401

\* C22: GET /api/users/:userId/dashboard from a verified caller with id r and role
\* R is served exactly when canViewResource(r, userId, R): the owner, any TEACHER
\* and any ADMIN are served, a STUDENT who is not the owner gets 403.
C22_DashboardServedIffCanView ==
  \A p \in Procs :
    DashboardAnswered(p) =>
      LET caller == CallerOf(p)[1] IN
      (resp[p].status # 403)
        = canViewResource(caller.userId, inp[p].userId, caller.role)

(***************************************************************************)
(* Properties of PATCH /api/progress/:progressId.                          *)
(***************************************************************************)
\* task p's PATCH, from a verified caller and naming a record that exists, is answered
PatchDecided(p) ==
  /\ pc[p] = "done" /\ inp[p].op = "patch"
  /\ loc[p].at = "patch" /\ loc[p].existed

\* the owner of the record a PATCH names (the id of a record starts with its key)
OwnerOf(progressId) == progressId[1]

\* C23: PATCH /api/progress/:progressId from a verified caller with id r and role R
\* on a record owned by o is applied exactly when canModifyResource(r, o, R) holds;
\* a TEACHER who does not own the record is refused.
C23_PatchAppliedIffCanModify ==
  \A p \in Procs :
    PatchDecided(p) =>
      /\ loc[p].allowed
           = canModifyResource(loc[p].user.id, OwnerOf(loc[p].progressId),
                               loc[p].user.role)
      /\ (resp[p].status = 200) = loc[p].allowed

(***************************************************************************)
(* Properties of the deletions.                                            *)
(***************************************************************************)
\* header hdr carries a token that verifies at time t with a role in roles
CarriesRole(hdr, t, roles) ==
  LET token == extractTokenFromHeader(hdr) IN
  /\ ~NoToken(token)
  /\ LET payload == verifyToken(AsToken(token[1]), t) IN
     payload # None /\ payload[1].role \in Range(roles)

\* C24: a Progress record is removed only by a request that carried a verified
\* token with a role of deleteAny (ADMIN): no step makes a record disappear,
\* directly or with its user, unless the request handled in that step carried one.
C24_OnlyPrivilegedDeletes ==
  [][(\E r \in progress : r.id \notin {x.id : x \in progress'})
       => \E p \in Procs :
            /\ pc[p] = "idle" /\ pc'[p] = "done"
            /\ CarriesRole(inp'[p].hdr, now, ROLE_PERMISSIONS.deleteAny)]_vars

(***************************************************************************)
(* Properties of tokens across a change of the stored role.                *)
(***************************************************************************)
\* the role stored for userId
StoredRole(userId) == (CHOOSE u \in users : u.id = userId).role

\* C26: after a principal's stored role changes, an unexpired token issued before
\* the change still verifies with the role it was issued with, and withRole decides
\* on that role, not the stored one; a token carries the stored role of the moment
\* login issued it, so the new role shows only in tokens issued after the change.
C26_TokenKeepsIssuedRole ==
  /\ [](\A q \in Procs :
          (inp[q].op = "login" /\ resp[q].status = 200) =>
            LET tok == resp[q].data[1].token
                issued == resp[q].data[1].user
            IN now < tok.exp
                 => verifyToken(tok, now)
                      = Some([userId |-> issued.id, role |-> issued.role]))
  /\ [](\A p \in Procs :
          (inp[p].op = "gateway" /\ pc[p] \in {"gw_handler", "done"}
             /\ inp[p].at < inp[p].iat + TTL)
            => /\ (resp[p].status # 403) = (inp[p].role \in inp[p].allowedRoles)
               /\ resp[p].status # 401
               /\ inp[p].role \in inp[p].allowedRoles
                    => loc[p].arg = [userId |-> inp[p].userId, role |-> inp[p].role])
  /\ [][\A q \in Procs :
          (pc[q] = "login_find" /\ pc'[q] = "done" /\ resp'[q].status = 200)
            => resp'[q].data[1].token.role = StoredRole(resp'[q].data[1].user.id)]_vars

\* the ADMIN was demoted after login; the token of that login, not yet expired, was
\* admitted to an ADMIN-only route as ADMIN
C26_Witness ==
  /\ inp[RoleCaller].op = "gateway"
  /\ pc[RoleCaller] = "done"
  /\ loc[RoleCaller].ran
  /\ inp[RoleCaller].roleList = <<"ADMIN">>
  /\ inp[RoleCaller].role = "ADMIN"
  /\ \E u \in users : u.id = inp[RoleCaller].userId /\ u.role = "STUDENT"
  /\ resp[RoleCaller].status = 200

(***************************************************************************)
(* Properties of enrollment followed by login.                             *)
(***************************************************************************)
\* the row the email had before any enrollment
SeedRow(email) == CHOOSE u \in SeedUsers : u.email = email

\* task p's enrollment for an email that already belonged to a principal has
\* been answered 201, and it carried no token
Reenrolled(p) ==
  /\ Enrolled(p)
  /\ resp[p].status = 201
  /\ inp[p].hdr = None
  /\ \E u \in SeedUsers : u.email = loc[p].email

\* C29: enroll asks for no token, and once enroll(name, e, p) on the email of an
\* existing principal has been answered 201, a login with e and p is answered 200
\* with a token that carries the principal's id and role of before the enroll,
\* and a login with the password stored before the enroll is refused.
C29_EnrollReplacesPassword ==
  [][\A p, q \in Procs :
       ( /\ Reenrolled(p)
         /\ pc[q] = "login_find" /\ pc'[q] = "done"
         /\ loc[q].email = loc[p].email )
       => LET seed == SeedRow(loc[p].email) IN
          /\ loc[q].password = inp[p].body.password
               => /\ resp'[q].status = 200
                  /\ resp'[q].data[1].token.userId = seed.id
                  /\ resp'[q].data[1].token.role = seed.role
                  /\ verifyToken(resp'[q].data[1].token, now) # None
          /\ ( /\ verifyPassword(loc[q].password, seed.password)
               /\ loc[q].password # inp[p].body.password )
               => resp'[q] = LoginWrongPassword]_vars

\* the administrator's email was enrolled again with password2; a login with
\* password2 returned a token of cuser2 with role ADMIN
C29_Witness ==
  \E p, q \in Procs :
    /\ Reenrolled(p)
    /\ loc[p].email = "admin@orbit.edu"
    /\ inp[p].body.password = "password2"
    /\ pc[q] = "done" /\ inp[q].op = "login"
    /\ inp[q].body = [email |-> "admin@orbit.edu", password |-> "password2"]
    /\ resp[q].status = 200
    /\ resp[q].data[1].token.userId = "cuser2"
    /\ resp[q].data[1].token.role = "ADMIN"

(***************************************************************************)
(* Properties of updatedAt.                                                *)
(***************************************************************************)
\* task p's sync commits its write in this step
SyncCommits(p) ==
  /\ pc[p] = "sync_write" /\ pc'[p] = "done"
  /\ resp'[p].status = 201

\* C30 as stated: no step lowers the updatedAt of a stored Progress record,
\* whatever the order in which overlapping syncs commit.
C30_UpdatedAtNeverDecreases ==
  [][\A r \in progress : \A w \in progress' :
       w.id = r.id => w.updatedAt >= r.updatedAt]_vars

\* C30 amended: a committed sync leaves updatedAt at the server time at which
\* the handler took up the request, never later than the commit; a sync that no
\* other request overlapped leaves it not earlier than the value it replaced.
C30_UpdatedAtIsReceiveTime ==
  [][\A p \in Procs :
       SyncCommits(p) =>
         \A w \in ProgressByKey(progress', loc[p].userId, loc[p].lessonId) :
           /\ w.updatedAt = resp'[p].data[1].updatedAt
           /\ w.updatedAt = loc[p].updatedAt
           /\ w.updatedAt <= now
           /\ loc[p].solo =>
                \A r \in ProgressByKey(progress, loc[p].userId, loc[p].lessonId) :
                  w.updatedAt >= r.updatedAt]_vars

\* two overlapping syncs for one key are answered; the stored record is the one
\* of the sync received first, with an updatedAt earlier than the one the other
\* sync was answered with
C30_Witness ==
  \E p, q \in Procs :
    /\ pc[p] = "done" /\ pc[q] = "done"
    /\ inp[p].op = "sync" /\ inp[q].op = "sync"
    /\ resp[p].status = 201 /\ resp[q].status = 201
    /\ ~loc[p].solo /\ ~loc[q].solo
    /\ progress = {resp[p].data[1]}
    /\ resp[p].data[1].id = resp[q].data[1].id
    /\ loc[p].updatedAt < loc[q].updatedAt
    /\ resp[p].data[1].updatedAt < resp[q].data[1].updatedAt

====
